---------------------------- MODULE Spec2Model ----------------------------
(***************************************************************************)
(* A model of arc-to-zen: the Mozilla LZ4 container codec (package mozlz4) *)
(* and the import engine (package importer: container allocation, merge by *)
(* workspace name, recursive emission of folders and tabs).                *)
(*                                                                         *)
(* Three behaviour specifications share the variables:                     *)
(*   SpecCodec  Compress / Decompress applied to bounded byte sequences    *)
(*   SpecAlloc  Import over varied spaces, profiles and registries         *)
(*   SpecTree   Import over varied item catalogs (forests with markers)    *)
(***************************************************************************)
EXTENDS Integers, Sequences, FiniteSets, TLC

(***************************************************************************)
(* Bounds of the model (not program constants).                            *)
(***************************************************************************)
\* longest payload handed to Compress
MaxLen == 3
\* most source spaces in SpecAlloc
MaxSpaces == 3
\* most source items in SpecTree
MaxItems == 3
\* most consecutive Import calls on one profile directory
MaxRuns == 2
\* calls of PreCacheFaviconsWithProgress in a behaviour
MaxCalls == 2
\* length of the urls argument
MaxURLs == 2
\* the workers argument
MaxWorkers == 2
\* calls of collect the goroutine's stack holds at most
MaxDepth == 5

(***************************************************************************)
(* Program constants.                                                      *)
(***************************************************************************)
\* mozlz4.go: headerSize, sizeBytes
headerSize == 8
sizeBytes == 4
\* 2^16: a uint32 is handled as two 16-bit halves, TLC's integers being 32-bit
Half == 65536
\* lz4 block format: a token nibble of 15 announces extension bytes
NibbleMax == 15
\* lz4 block format: shortest match
minMatch == 4
\* pierrec/lz4 block compressor: inputs shorter than this are emitted as one
\* literal run (mfLimit = 10 + minMatch)
mfLimit == 14

VARIABLES
    \* ---- codec (SpecCodec) ----
    cpc,            \* "input" | "compressed" | "decompressed" | "decoded"
    data,           \* the payload handed to Compress
    compressed,     \* result of Compress: [err, out]
    decompressed,   \* result of Decompress: [err, out]
    \* ---- source data (read-only input of Import) ----
    arcSpaces,      \* parsed spaces, in source order
    arcItems,       \* parsed items, in source order
    \* ---- profile directory (disk) ----
    sessionFile,    \* zen-sessions.jsonlz4: [exists, bytes, content]
    containersFile, \* containers.json: [exists, content]
    backups,        \* the files of zen-sessions-backup, as a set of contents
    faviconCache,   \* favicon cache directory: file name -> content, "" if absent
    \* ---- options and environment (fixed during a behaviour) ----
    dryRun,         \* ImportOptions.DryRun
    network,        \* the answers a favicon server may give to a request
    \* ---- one Import call (memory) ----
    pc,             \* "idle" | "alloc" | "spaces" | "collect" | "items" | "containers"
                    \* | "backup" | "session" | "crashed"
    runs,           \* Import calls started so far
    zenSession,
    containersData,
    profiles,       \* map profile name -> ProfileInfo
    pendingProfiles,\* profile names the range loop has not visited yet
    nextContainerID,
    spaceUUIDMap,
    nextSpacePosition,
    spaceIdx,       \* loop index over arcSpaces (both loops)
    arcToZenUUIDMap,
    now,
    lastFolderByParent,
    stack,          \* pending insertItemWithChildren calls, next call first
    pinsCreated,
    uuidCounter,    \* uuid.New(): every call returns an unused value
    outcome,        \* what the last Import call returned: "none" | "ok" | an error
    \* ---- collectAllURLs, call by call (SpecWalk) ----
    callStack,      \* the calls of collect under way, innermost last: [item, next]
    collected,      \* the urls slice so far
    visited,        \* history: the items collect was called on
    \* ---- PreCacheFaviconsWithProgress (SpecPrefetch) ----
    ppc,            \* caller: "idle" | "sending" | "waiting" | "returned"
    urls,           \* the urls argument
    workers,        \* the workers argument
    urlChan,        \* buffered channel: indices into urls not yet received
    chanClosed,
    sendIdx,        \* index of the next url the caller sends
    wpc,            \* per worker: "recv" | "check" | "fetch" | "fail" | "store" | "done"
    wurl,           \* per worker: index of the url it holds
    wg,             \* sync.WaitGroup counter
    result,         \* PreCacheResult
    processed,
    calls,          \* calls of PreCacheFaviconsWithProgress started so far
    lastFetch,      \* the last FetchAsDataURL call since the last prefetch: [url, result,
                    \* marked, requested], marked telling that it found the
                    \* failure marker, requested the hosts it sent a request to
    \* ---- history (not program state) ----
    emitted,        \* what the current run appended: [folders, tabs, items]
    diskAtStart,    \* the disk as the current Import call found it
    backupDone,     \* the current Import call has written a backup
    requests,       \* hosts a request was sent to since the current call began
    markedAtStart,  \* cache files holding the failure marker when the call began
    taken,          \* per url index: how many times a worker received it
    tally           \* per url index: how the prefetch counted it

codecVars == <<cpc, data, compressed, decompressed>>
sourceVars == <<arcSpaces, arcItems>>
collectVars == <<callStack, collected, visited>>
diskVars == <<sessionFile, containersFile, backups>>
envVars == <<dryRun, network>>
faviconVars == <<faviconCache, requests>>
ioVars == <<outcome, diskAtStart, backupDone>>
prefetchVars == <<ppc, urls, workers, urlChan, chanClosed, sendIdx, wpc, wurl,
                  wg, result, processed, calls, lastFetch, markedAtStart, taken, tally>>
runVars == <<pc, runs, zenSession, containersData, profiles, pendingProfiles,
             nextContainerID, spaceUUIDMap, nextSpacePosition, spaceIdx,
             arcToZenUUIDMap, now, lastFolderByParent, stack, pinsCreated,
             uuidCounter, emitted>>
vars == <<codecVars, sourceVars, collectVars, diskVars, runVars, envVars, faviconVars, ioVars,
          prefetchVars>>

(***************************************************************************)
(* Helpers on sequences.                                                   *)
(***************************************************************************)
Range(s) == {s[i] : i \in 1..Len(s)}

SeqsUpTo(S, n) == UNION {[1..k -> S] : k \in 0..n}

(***************************************************************************)
(*                              CODEC                                      *)
(***************************************************************************)
\* "mozLz40\0" as bytes
headerMagic == <<109, 111, 122, 76, 122, 52, 48, 0>>

\* binary.LittleEndian.PutUint32(b, uint32(n))
PutUint32(n) ==
    <<n % 256, (n \div 256) % 256, (n \div Half) % 256, (n \div (256 * Half)) % 256>>

\* binary.LittleEndian.Uint32(b)
Uint32(b) == b[1] + 256 * b[2] + Half * b[3] + 256 * Half * b[4]

RECURSIVE LenExt(_)
\* lz4 length extension bytes for a remainder n >= 0: 255 ... 255, n % 255
LenExt(n) == IF n >= 255 THEN <<255>> \o LenExt(n - 255) ELSE <<n>>

\* lz4.CompressBlock(src, dst) with len(dst) = CompressBlockBound(len(src)).
\* An input shorter than mfLimit has no match candidates: the block is one
\* sequence, a token carrying the literal length and then the literals.
CompressBlock(src) ==
    IF Len(src) >= mfLimit
    THEN [err |-> TRUE, out |-> <<>>]   \* outside the modelled range
    ELSE [err |-> FALSE,
          out |-> (IF Len(src) < NibbleMax
                   THEN <<Len(src) * 16>>
                   ELSE <<NibbleMax * 16>> \o LenExt(Len(src) - NibbleMax))
                  \o src]

RECURSIVE ReadLen(_, _, _)
\* read length extension bytes at src[si..]: [ok, n, si]
ReadLen(src, si, acc) ==
    IF si > Len(src) THEN [ok |-> FALSE, n |-> acc, si |-> si]
    ELSE IF src[si] = 255 THEN ReadLen(src, si + 1, acc + 255)
    ELSE [ok |-> TRUE, n |-> acc + src[si], si |-> si + 1]

RECURSIVE CopyMatch(_, _, _)
\* append mLen bytes copied from offset bytes back (overlap allowed)
CopyMatch(out, offset, mLen) ==
    IF mLen = 0 THEN out
    ELSE CopyMatch(Append(out, out[Len(out) + 1 - offset]), offset, mLen - 1)

RECURSIVE DecodeBlock(_, _, _, _)
\* lz4 decodeBlock: src from position si (1-based), out written so far, cap =
\* len(dst). Any read or write out of range is an error.
DecodeBlock(src, si, out, cap) ==
    IF si > Len(src) THEN [err |-> FALSE, out |-> out]
    ELSE
      LET b == src[si]
          lNib == b \div 16
          mNib == b % 16
          lit == IF lNib = NibbleMax THEN ReadLen(src, si + 1, NibbleMax)
                 ELSE [ok |-> TRUE, n |-> lNib, si |-> si + 1]
      IN IF ~lit.ok \/ lit.si + lit.n - 1 > Len(src) \/ Len(out) + lit.n > cap
         THEN [err |-> TRUE, out |-> <<>>]
         ELSE
           LET out1 == out \o SubSeq(src, lit.si, lit.si + lit.n - 1)
               s1 == lit.si + lit.n
           IN IF s1 = Len(src) + 1 /\ mNib = 0 THEN [err |-> FALSE, out |-> out1]
              ELSE IF s1 + 1 > Len(src) THEN [err |-> TRUE, out |-> <<>>]
              ELSE
                LET offset == src[s1] + 256 * src[s1 + 1]
                    mat == IF mNib = NibbleMax
                           THEN ReadLen(src, s1 + 2, NibbleMax + minMatch)
                           ELSE [ok |-> TRUE, n |-> mNib + minMatch, si |-> s1 + 2]
                IN IF offset = 0 \/ ~mat.ok \/ offset > Len(out1)
                      \/ Len(out1) + mat.n > cap
                   THEN [err |-> TRUE, out |-> <<>>]
                   ELSE DecodeBlock(src, mat.si, CopyMatch(out1, offset, mat.n), cap)

\* lz4.UncompressBlock(src, dst): the bytes written, or an error
UncompressBlock(src, cap) ==
    IF Len(src) = 0 THEN [err |-> FALSE, out |-> <<>>]
    ELSE DecodeBlock(src, 1, <<>>, cap)

\* mozlz4.Compress
Compress(d) ==
    LET c == CompressBlock(d)
    IN IF c.err THEN [err |-> TRUE, out |-> <<>>]
       ELSE [err |-> FALSE, out |-> headerMagic \o PutUint32(Len(d)) \o c.out]

\* Decompress handing the size field to the block decoder as block data
DecompressNoSkip(d) ==
    IF Len(d) < headerSize + sizeBytes THEN [err |-> TRUE, out |-> <<>>]
    ELSE IF SubSeq(d, 1, headerSize) # headerMagic THEN [err |-> TRUE, out |-> <<>>]
    ELSE
      LET uncompressedSize == Uint32(SubSeq(d, headerSize + 1, headerSize + sizeBytes))
          compressedData == SubSeq(d, headerSize + 1, Len(d))
          r == UncompressBlock(compressedData, uncompressedSize)
      IN IF r.err THEN [err |-> TRUE, out |-> <<>>]
         ELSE [err |-> FALSE, out |-> r.out]

\* Decompress that does not compare the magic bytes
DecompressNoMagic(d) ==
    IF Len(d) < headerSize + sizeBytes THEN [err |-> TRUE, out |-> <<>>]
    ELSE
      LET uncompressedSize == Uint32(SubSeq(d, headerSize + 1, headerSize + sizeBytes))
          compressedData == SubSeq(d, headerSize + sizeBytes + 1, Len(d))
          r == UncompressBlock(compressedData, uncompressedSize)
      IN IF r.err THEN [err |-> TRUE, out |-> <<>>]
         ELSE [err |-> FALSE, out |-> r.out]

\* mozlz4.Decompress
Decompress(d) ==
    IF Len(d) < headerSize + sizeBytes THEN [err |-> TRUE, out |-> <<>>]
    ELSE IF SubSeq(d, 1, headerSize) # headerMagic THEN [err |-> TRUE, out |-> <<>>]
    ELSE
      LET uncompressedSize == Uint32(SubSeq(d, headerSize + 1, headerSize + sizeBytes))
          compressedData == SubSeq(d, headerSize + sizeBytes + 1, Len(d))
          r == UncompressBlock(compressedData, uncompressedSize)
      IN IF r.err THEN [err |-> TRUE, out |-> <<>>]
         ELSE [err |-> FALSE, out |-> r.out]

\* byte values the payloads are drawn from
PayloadBytes == {0, 65, 255}

NoResult == [err |-> FALSE, out |-> <<>>]

CompressStep ==
    /\ cpc = "input"
    /\ compressed' = Compress(data)
    /\ cpc' = "compressed"
    /\ UNCHANGED <<data, decompressed, sourceVars, collectVars, diskVars, runVars, envVars,
                   faviconVars, ioVars, prefetchVars>>

DecompressStep ==
    /\ cpc = "compressed"
    /\ ~compressed.err
    /\ decompressed' = Decompress(compressed.out)
    /\ cpc' = "decompressed"
    /\ UNCHANGED <<data, compressed, sourceVars, collectVars, diskVars, runVars, envVars,
                   faviconVars, ioVars, prefetchVars>>

\* inputs handed to Decompress that are not what Compress wrote for d: every
\* prefix of it, it with one byte of the magic changed, and it with the low
\* byte of the size field one more or one less
RawInputs(d) ==
    LET c == Compress(d).out
    IN {SubSeq(c, 1, n) : n \in 0..Len(c)}
       \cup {[c EXCEPT ![k] = (c[k] + 1) % 256] : k \in 1..headerSize}
       \cup {[c EXCEPT ![headerSize + 1] = (c[headerSize + 1] + step) % 256] :
                 step \in {1, 255}}

\* Decompress called on arbitrary bytes
DecompressAny(raw) ==
    /\ cpc = "input"
    /\ compressed' = [err |-> FALSE, out |-> raw]
    /\ decompressed' = Decompress(raw)
    /\ cpc' = "decoded"
    /\ UNCHANGED <<data, sourceVars, collectVars, diskVars, runVars, envVars,
                   faviconVars, ioVars, prefetchVars>>

NextCodec ==
    \/ CompressStep
    \/ DecompressStep
    \/ \E raw \in RawInputs(data) : DecompressAny(raw)

(***************************************************************************)
(*                     FAVICON: cache and fetch                            *)
(***************************************************************************)
failedMarker == "FAILED"

\* the host of the page of the n-th item of a generated catalog
ItemHost(n) == "i" \o ToString(n) \o ".com"

ItemHostCount == 2 * (MaxSpaces + MaxItems)

\* url.Parse over the page URLs of the model: [err, Scheme, Host]
ParseURL(u) ==
    CASE u = "https://a.com/1" -> [err |-> FALSE, Scheme |-> "https", Host |-> "a.com"]
      [] u = "https://a.com/2" -> [err |-> FALSE, Scheme |-> "https", Host |-> "a.com"]
      [] u = "http://b.com:8080/" -> [err |-> FALSE, Scheme |-> "http", Host |-> "b.com:8080"]
      [] u = "ftp://f.com/x" -> [err |-> FALSE, Scheme |-> "ftp", Host |-> "f.com"]
      [] u = "not-a-url" -> [err |-> FALSE, Scheme |-> "", Host |-> ""]
      [] u = "" -> [err |-> FALSE, Scheme |-> "", Host |-> ""]
      [] \E n \in 1..ItemHostCount : u = "https://" \o ItemHost(n) ->
            [err |-> FALSE, Scheme |-> "https",
             Host |-> ItemHost(CHOOSE n \in 1..ItemHostCount : u = "https://" \o ItemHost(n))]
      [] OTHER -> [err |-> TRUE, Scheme |-> "", Host |-> ""]

\* the hosts of the model
Hosts == {"a.com", "b.com:8080", "f.com"} \cup {ItemHost(n) : n \in 1..ItemHostCount}

\* sanitizeFilename: separators, colons and spaces become underscores
sanitizeFilename(name) == IF name = "b.com:8080" THEN "b.com_8080" ELSE name

\* the cache file of a host
CachePath(host) == sanitizeFilename(host) \o ".txt"

CachePaths == {CachePath(h) : h \in Hosts}

\* a cache directory without files; a file that does not exist reads as ""
EmptyCache == [path \in CachePaths |-> ""]

\* buildFaviconURL: [err, url]
buildFaviconURL(pageURL) ==
    LET parsedURL == ParseURL(pageURL)
    IN IF pageURL = "" \/ parsedURL.err THEN [err |-> TRUE, url |-> ""]
       ELSE IF parsedURL.Scheme # "http" /\ parsedURL.Scheme # "https"
       THEN [err |-> TRUE, url |-> ""]
       ELSE [err |-> FALSE,
             url |-> parsedURL.Scheme \o "://" \o parsedURL.Host \o "/favicon.ico"]

\* fetchFavicon, given what the server answers: "ok" is status 200 with a
\* body, "empty" status 200 without one, "fail" anything else: [err, data]
fetchFavicon(host, response) ==
    IF response = "ok" THEN [err |-> FALSE, data |-> "icon:" \o host]
    ELSE IF response = "empty" THEN [err |-> FALSE, data |-> ""]
    ELSE [err |-> TRUE, data |-> ""]

\* encodeAsDataURL with the content type normalised to image/x-icon
encodeAsDataURL(body) ==
    IF body = "" THEN "" ELSE "data:image/x-icon;base64," \o body

\* readFromCache reading a failure marker as a missing file
readFromCacheSkipMarker(cache, pageURL) ==
    LET u == ParseURL(pageURL)
    IN IF u.err \/ u.Host = "" THEN ""
       ELSE IF cache[CachePath(u.Host)] = failedMarker THEN ""
       ELSE cache[CachePath(u.Host)]

\* readFromCache
readFromCache(cache, pageURL) ==
    LET u == ParseURL(pageURL)
    IN IF u.err \/ u.Host = "" THEN "" ELSE cache[CachePath(u.Host)]

\* cacheFailure: the cache after the call
cacheFailure(cache, pageURL) ==
    LET u == ParseURL(pageURL)
    IN IF u.err \/ u.Host = "" THEN cache
       ELSE [cache EXCEPT ![CachePath(u.Host)] = failedMarker]

\* writeToCache: the cache after the call
writeToCache(cache, pageURL, dataURL) ==
    LET u == ParseURL(pageURL)
    IN IF dataURL = "" \/ u.err \/ u.Host = "" THEN cache
       ELSE [cache EXCEPT ![CachePath(u.Host)] = dataURL]

\* FetchAsDataURL, given what the server would answer:
\* [result, cache, requested] with requested the hosts a request was sent to
FetchAsDataURL(cache, pageURL, response) ==
    LET faviconURL == buildFaviconURL(pageURL)
        cached == readFromCache(cache, pageURL)
        host == ParseURL(pageURL).Host
        fetched == fetchFavicon(host, response)
        dataURL == encodeAsDataURL(fetched.data)
    IN IF faviconURL.err THEN [result |-> "", cache |-> cache, requested |-> {}]
       ELSE IF cached # ""
       THEN [result |-> IF cached = failedMarker THEN "" ELSE cached,
             cache |-> cache, requested |-> {}]
       ELSE IF fetched.err THEN [result |-> "", cache |-> cache, requested |-> {host}]
       ELSE [result |-> dataURL, cache |-> writeToCache(cache, pageURL, dataURL),
             requested |-> {host}]

(***************************************************************************)
(*               FAVICON: PreCacheFaviconsWithProgress                     *)
(* The caller starts the workers, sends every url on a buffered channel,   *)
(* closes it and waits; each worker loops over the channel.  A step of a   *)
(* worker is one access to the cache directory, one request, or one        *)
(* section under the mutex.                                                *)
(***************************************************************************)
defaultWorkers == 10

EffectiveWorkers(w) == IF w <= 0 THEN defaultWorkers ELSE w

NoPreCacheResult == [Total |-> 0, Cached |-> 0, Fetched |-> 0, Failed |-> 0]

NoFetch == [url |-> "", result |-> "", marked |-> FALSE, requested |-> {}]

\* the cache files that hold the failure marker
MarkedPaths(cache) == {path \in DOMAIN cache : cache[path] = failedMarker}

otherVars == <<codecVars, sourceVars, collectVars, diskVars, runVars, envVars, ioVars>>

\* the call, up to the start of the workers; with no urls it returns at once
StartPrefetch ==
    /\ ppc \in {"idle", "returned"}
    /\ calls < MaxCalls
    /\ calls' = calls + 1
    /\ result' = [NoPreCacheResult EXCEPT !.Total = Len(urls)]
    /\ processed' = 0
    /\ requests' = {}
    /\ markedAtStart' = MarkedPaths(faviconCache)
    /\ taken' = [i \in 1..Len(urls) |-> 0]
    /\ tally' = [i \in 1..Len(urls) |-> "none"]
    /\ urlChan' = <<>>
    /\ chanClosed' = FALSE
    /\ sendIdx' = 1
    /\ IF Len(urls) = 0
       THEN /\ ppc' = "returned"
            /\ wpc' = <<>>
            /\ wurl' = <<>>
            /\ wg' = 0
       ELSE /\ ppc' = "sending"
            /\ wpc' = [w \in 1..EffectiveWorkers(workers) |-> "recv"]
            /\ wurl' = [w \in 1..EffectiveWorkers(workers) |-> 0]
            /\ wg' = EffectiveWorkers(workers)
    /\ lastFetch' = NoFetch
    /\ UNCHANGED <<urls, workers, faviconCache, otherVars>>

\* urlChan <- url: the channel has room for every url
SendURL ==
    /\ ppc = "sending"
    /\ sendIdx <= Len(urls)
    /\ urlChan' = Append(urlChan, sendIdx)
    /\ sendIdx' = sendIdx + 1
    /\ UNCHANGED <<ppc, urls, workers, chanClosed, wpc, wurl, wg, result,
                   processed, calls, lastFetch, markedAtStart, taken, tally,
                   faviconVars, otherVars>>

\* close(urlChan), then wg.Wait()
CloseChan ==
    /\ ppc = "sending"
    /\ sendIdx > Len(urls)
    /\ chanClosed' = TRUE
    /\ ppc' = "waiting"
    /\ UNCHANGED <<urls, workers, urlChan, sendIdx, wpc, wurl, wg, result,
                   processed, calls, lastFetch, markedAtStart, taken, tally,
                   faviconVars, otherVars>>

\* the caller returning without waiting for the workers
PrefetchReturnNoWait ==
    /\ ppc = "waiting"
    /\ ppc' = "returned"
    /\ UNCHANGED <<urls, workers, urlChan, chanClosed, sendIdx, wpc, wurl, wg,
                   result, processed, calls, lastFetch, markedAtStart, taken, tally,
                   faviconVars, otherVars>>

\* wg.Wait() returns when every worker has called wg.Done(); the result is returned
PrefetchReturn ==
    /\ ppc = "waiting"
    /\ wg = 0
    /\ ppc' = "returned"
    /\ UNCHANGED <<urls, workers, urlChan, chanClosed, sendIdx, wpc, wurl, wg,
                   result, processed, calls, lastFetch, markedAtStart, taken, tally,
                   faviconVars, otherVars>>

\* for pageURL := range urlChan: receive, or leave the loop on a closed and
\* drained channel (defer wg.Done())
WorkerRecv(w) ==
    /\ wpc[w] = "recv"
    /\ IF urlChan # <<>>
       THEN /\ wurl' = [wurl EXCEPT ![w] = Head(urlChan)]
            /\ urlChan' = Tail(urlChan)
            /\ taken' = [taken EXCEPT ![Head(urlChan)] = @ + 1]
            /\ wpc' = [wpc EXCEPT ![w] = "check"]
            /\ UNCHANGED wg
       ELSE /\ chanClosed
            /\ wpc' = [wpc EXCEPT ![w] = "done"]
            /\ wg' = wg - 1
            /\ UNCHANGED <<wurl, urlChan, taken>>
    /\ UNCHANGED <<ppc, urls, workers, chanClosed, sendIdx, result, processed,
                   calls, lastFetch, markedAtStart, tally, faviconVars, otherVars>>

\* the empty url is skipped; a url with a cache entry, failure markers
\* included, is counted as cached
WorkerCheck(w) ==
    /\ wpc[w] = "check"
    /\ LET pageURL == urls[wurl[w]]
       IN IF pageURL = ""
          THEN /\ processed' = processed + 1
               /\ tally' = [tally EXCEPT ![wurl[w]] = "skipped"]
               /\ wpc' = [wpc EXCEPT ![w] = "recv"]
               /\ wurl' = [wurl EXCEPT ![w] = 0]
               /\ UNCHANGED result
          ELSE IF readFromCache(faviconCache, pageURL) # ""
          THEN /\ result' = [result EXCEPT !.Cached = @ + 1]
               /\ processed' = processed + 1
               /\ tally' = [tally EXCEPT ![wurl[w]] = "cached"]
               /\ wpc' = [wpc EXCEPT ![w] = "recv"]
               /\ wurl' = [wurl EXCEPT ![w] = 0]
          ELSE /\ wpc' = [wpc EXCEPT ![w] = "fetch"]
               /\ UNCHANGED <<result, processed, tally, wurl>>
    /\ UNCHANGED <<ppc, urls, workers, urlChan, chanClosed, sendIdx, wg,
                   calls, lastFetch, markedAtStart, taken, faviconVars, otherVars>>

\* a cache miss: buildFaviconURL, fetchFavicon and encodeAsDataURL, which touch
\* nothing the workers share, then the step that does: cacheFailure and
\* Failed++ for an error, writeToCache and Fetched++ for a data URL, Failed++
\* alone for an empty one
WorkerFetch(w) ==
    /\ wpc[w] = "fetch"
    /\ LET pageURL == urls[wurl[w]]
           host == ParseURL(pageURL).Host
       IN IF buildFaviconURL(pageURL).err
          THEN /\ faviconCache' = cacheFailure(faviconCache, pageURL)
               /\ result' = [result EXCEPT !.Failed = @ + 1]
               /\ tally' = [tally EXCEPT ![wurl[w]] = "failed"]
               /\ UNCHANGED requests
          ELSE \E response \in network :
                  LET fetched == fetchFavicon(host, response)
                      dataURL == encodeAsDataURL(fetched.data)
                  IN /\ requests' = requests \cup {host}
                     /\ IF fetched.err
                        THEN /\ faviconCache' = cacheFailure(faviconCache, pageURL)
                             /\ result' = [result EXCEPT !.Failed = @ + 1]
                             /\ tally' = [tally EXCEPT ![wurl[w]] = "failed"]
                        ELSE IF dataURL # ""
                        THEN /\ faviconCache' = writeToCache(faviconCache, pageURL, dataURL)
                             /\ result' = [result EXCEPT !.Fetched = @ + 1]
                             /\ tally' = [tally EXCEPT ![wurl[w]] = "fetched"]
                        ELSE /\ result' = [result EXCEPT !.Failed = @ + 1]
                             /\ tally' = [tally EXCEPT ![wurl[w]] = "failed"]
                             /\ UNCHANGED faviconCache
    /\ processed' = processed + 1
    /\ wpc' = [wpc EXCEPT ![w] = "recv"]
    /\ wurl' = [wurl EXCEPT ![w] = 0]
    /\ UNCHANGED <<ppc, urls, workers, urlChan, chanClosed, sendIdx, wg, calls,
                   lastFetch, markedAtStart, taken, otherVars>>

\* FetchAsDataURL called after a prefetch has returned
FetchCall(pageURL) ==
    /\ ppc = "returned"
    /\ \E response \in network :
          LET r == FetchAsDataURL(faviconCache, pageURL, response)
          IN /\ faviconCache' = r.cache
             /\ lastFetch' = [url |-> pageURL, result |-> r.result,
                              marked |-> readFromCache(faviconCache, pageURL) = failedMarker,
                              requested |-> r.requested]
    /\ UNCHANGED <<ppc, urls, workers, urlChan, chanClosed, sendIdx, wpc, wurl,
                   wg, result, processed, calls, markedAtStart, taken, tally, requests,
                   otherVars>>

NextPrefetch ==
    \/ StartPrefetch
    \/ SendURL
    \/ CloseChan
    \/ PrefetchReturn
    \/ \E w \in DOMAIN wpc : WorkerRecv(w)
    \/ \E w \in DOMAIN wpc : WorkerCheck(w)
    \/ \E w \in DOMAIN wpc : WorkerFetch(w)
    \/ \E pageURL \in Range(urls) : FetchCall(pageURL)

\* the cache directory after one worker has handled pageURL, for every answer
\* the network may give
PreCacheOne(cache, net, pageURL) ==
    IF pageURL = "" THEN {cache}
    ELSE IF readFromCache(cache, pageURL) # "" THEN {cache}
    ELSE IF buildFaviconURL(pageURL).err THEN {cacheFailure(cache, pageURL)}
    ELSE {IF fetchFavicon(ParseURL(pageURL).Host, response).err
          THEN cacheFailure(cache, pageURL)
          ELSE writeToCache(cache, pageURL,
                            encodeAsDataURL(fetchFavicon(ParseURL(pageURL).Host,
                                                         response).data))
          : response \in net}

\* PreCacheFaviconsWithProgress as one step of its caller: the cache
\* directories it may leave behind
RECURSIVE PreCacheCaches(_, _, _)
PreCacheCaches(cache, net, pageURLs) ==
    IF pageURLs = <<>> THEN {cache}
    ELSE UNION {PreCacheCaches(c, net, Tail(pageURLs)) :
                    c \in PreCacheOne(cache, net, Head(pageURLs))}

(***************************************************************************)
(*                        IMPORT: DATA MODEL                               *)
(***************************************************************************)
\* ArcSpace.Profile: absent, {"default": ...} or {"custom": {directoryBasename}}
NoProfile == [kind |-> "none", name |-> ""]
DefaultProfile == [kind |-> "default", name |-> ""]
CustomProfile(n) == [kind |-> "custom", name |-> n]

\* an entry of ArcSpace.ContainerIDs: a string or an object
StrRef(v) == [kind |-> "string", v |-> v]
ObjRef == [kind |-> "object", v |-> ""]

\* ZenFolder.PrevSiblingInfo: nil, or {"type": "group", "id": ...}
NilSibling == [type |-> "nil", id |-> ""]
GroupSibling(fid) == [type |-> "group", id |-> fid]

\* readZenSession: the session created when no session file exists
FreshSession == [Spaces |-> <<>>, Tabs |-> <<>>, Folders |-> <<>>, Groups |-> <<>>]

\* readContainers: the registry created when containers.json does not exist
FreshContainers == [hasLast |-> FALSE, LastUserContextID |-> 0, Identities |-> <<>>]

\* json.Marshal(session): the text is stood for by three bytes, the lengths
\* of the lists of the session
SessionJSON(session) ==
    <<Len(session.Spaces) % 256, Len(session.Tabs) % 256, Len(session.Folders) % 256>>

\* the session file writeZenSession produces: content is what json.Unmarshal
\* makes of the text inside bytes
SessionFileOf(session) ==
    [exists |-> TRUE, bytes |-> Compress(SessionJSON(session)).out, content |-> session]

NoSessionFile == [exists |-> FALSE, bytes |-> <<>>, content |-> FreshSession]

\* readZenSession that takes an undecodable file for no file
readZenSessionLenient(file) ==
    IF ~file.exists \/ Decompress(file.bytes).err
    THEN [err |-> "", session |-> FreshSession]
    ELSE IF Decompress(file.bytes).out # SessionJSON(file.content)
    THEN [err |-> "failed to parse session", session |-> FreshSession]
    ELSE [err |-> "", session |-> file.content]

\* readZenSession: [err, session], err = "" for success
readZenSession(file) ==
    IF ~file.exists THEN [err |-> "", session |-> FreshSession]
    ELSE IF Decompress(file.bytes).err
    THEN [err |-> "failed to decompress session", session |-> FreshSession]
    ELSE IF Decompress(file.bytes).out # SessionJSON(file.content)
    THEN [err |-> "failed to parse session", session |-> FreshSession]
    ELSE [err |-> "", session |-> file.content]
NoContainersFile == [exists |-> FALSE, content |-> FreshContainers]

\* ContainerIdentity.GetUserContextID
GetUserContextID(c) == IF ~c.hasID THEN 0 ELSE c.UserContextID

\* ContainerIdentity.HasValidUserContextID
HasValidUserContextID(c) == c.hasID /\ c.UserContextID > 0

\* fmt.Sprintf("{%s}", uuid.New().String()) for the k-th uuid drawn
UUIDString(k) == "{" \o ToString(k) \o "}"

\* a folder id made of the clock reading alone
FolderIDStringClockOnly(t, n) == ToString(t) \o "-0"

\* fmt.Sprintf("%d-%d", now, len(zenSession.Folders))
FolderIDString(t, n) == ToString(t) \o "-" \o ToString(n)

\* mappings.MapArcIconToSvg: total, a default for the empty name
MapArcIconToSvg(icon) == IF icon = "" THEN "default.svg" ELSE icon \o ".svg"

\* mappings.MapArcIconToContainerIcon: total, a default for the empty name
MapArcIconToContainerIcon(icon) == IF icon = "" THEN "briefcase" ELSE icon

\* Firefox container colors
containerColors ==
    <<"blue", "turquoise", "green", "yellow", "orange", "red", "pink", "purple">>

\* mappings.MapArcColorToZen: total, a default for an unknown name
MapArcColorToZen(color) == IF color \in Range(containerColors) THEN color ELSE "blue"

(***************************************************************************)
(*                      IMPORT: PURE FUNCTIONS                             *)
(***************************************************************************)
\* id == maxUint32 (4294967295), both halves being 0xFFFF
IsMaxUint32(id) == id \div Half = Half - 1 /\ id % Half = Half - 1

\* calculateNextContainerID
RECURSIVE MaxValidID(_, _, _)
MaxValidID(ids, i, maxID) ==
    IF i > Len(ids) THEN maxID
    ELSE LET id == GetUserContextID(ids[i])
         IN MaxValidID(ids, i + 1, IF ~IsMaxUint32(id) /\ id > maxID THEN id ELSE maxID)

\* calculateNextContainerID looking at lastUserContextId only
calculateNextContainerIDLastOnly(cd) ==
    (IF cd.hasLast THEN cd.LastUserContextID ELSE 0) + 1

calculateNextContainerID(cd) ==
    MaxValidID(cd.Identities, 1, IF cd.hasLast THEN cd.LastUserContextID ELSE 0) + 1

\* the first of a set of indices (a loop that stops at its first hit), 0 if none
FirstIdx(hits) ==
    IF hits = {} THEN 0 ELSE CHOOSE i \in hits : \A j \in hits : i <= j

\* findSpaceByName: index of the first space with that name, 0 for nil
findSpaceByName(spaces, name) ==
    FirstIdx({i \in 1..Len(spaces) : spaces[i].Name = name})

\* findContainerByName: index of the first container with that name and a
\* valid userContextId, 0 for nil
findContainerByName(containers, name) ==
    FirstIdx({i \in 1..Len(containers) :
                 containers[i].Name = name /\ HasValidUserContextID(containers[i])})

\* filterTabs keeping every tab of the workspace
filterTabsKeepAll(tabs, workspaceUUID) == tabs

\* filterTabs: drops the pinned tabs of the workspace
filterTabs(tabs, workspaceUUID) ==
    LET Keep(tab) == tab.ZenWorkspace # workspaceUUID \/ ~tab.Pinned
    IN SelectSeq(tabs, Keep)

\* filterFolders dropping every folder
filterFoldersAll(folders, workspaceID) == <<>>

\* filterFolders: drops the folders of the workspace
filterFolders(folders, workspaceID) ==
    LET Keep(folder) == folder.WorkspaceID # workspaceID
    IN SelectSeq(folders, Keep)

\* getProfileName
getProfileName(space) ==
    IF space.Profile.kind = "none" THEN "default"
    ELSE IF space.Profile.kind = "default" THEN "default"
    ELSE IF space.Profile.kind = "custom" THEN space.Profile.name
    ELSE "default"

\* the icon of a space: customInfo.iconType.icon, else the flat icon field
SpaceIcon(space) == IF space.CustomIcon # "" THEN space.CustomIcon ELSE space.Icon

\* the name of the workspace a space becomes
SpaceName(space) == IF space.Title = "" THEN "Workspace " \o space.ID ELSE space.Title

RECURSIVE CollectProfiles(_, _, _, _)
CollectProfiles(spaces, i, acc, colorIndex) ==
    IF i > Len(spaces) THEN acc
    ELSE
      LET space == spaces[i]
          profileName == getProfileName(space)
      IN IF profileName \in DOMAIN acc
         THEN CollectProfiles(spaces, i + 1, acc, colorIndex)
         ELSE CollectProfiles(spaces, i + 1,
                (profileName :> [Name |-> profileName,
                                 DisplayName |-> IF space.Title = "" THEN profileName
                                                 ELSE space.Title,
                                 ContainerID |-> 0,
                                 Icon |-> SpaceIcon(space),
                                 Color |-> containerColors[(colorIndex % Len(containerColors)) + 1]])
                @@ acc,
                colorIndex + 1)

\* collectUniqueProfiles
collectUniqueProfiles(spaces) == CollectProfiles(spaces, 1, <<>>, 0)

\* itemsMap[id]: the last parsed item with that id; 0 when there is none
ItemIdx(items, id) ==
    IF \E i \in 1..Len(items) : items[i].ID = id
    THEN CHOOSE i \in 1..Len(items) :
            items[i].ID = id /\ \A j \in (i + 1)..Len(items) : items[j].ID # id
    ELSE 0

\* the child ids of an item that resolve in itemsMap, in order
ResolvedChildren(items, item) ==
    LET Known(id) == ItemIdx(items, id) # 0 IN SelectSeq(item.ChildrenIds, Known)

\* getRootItemsForSpace: ids of the root items of a space, in order
getRootItemsForSpace(space, items) ==
    LET Resolves(ref) == ref.kind = "string" /\ ItemIdx(items, ref.v) # 0
        refs == SelectSeq(space.ContainerIDs, Resolves)
    IN [k \in 1..Len(refs) |-> refs[k].v]

\* filterArcContainers: the ids of the items that are no Arc containers
filterArcContainers(items) ==
    LET Keep(item) == ~item.isContainer
        kept == SelectSeq(items, Keep)
    IN [k \in 1..Len(kept) |-> kept[k].ID]


\* collectAllURLs: the saved urls of the items that are no Arc containers,
\* each once, in the order the traversal meets them
RECURSIVE collect(_, _, _)
RECURSIVE collectChildren(_, _, _)
collect(items, id, acc) ==
    LET item == items[ItemIdx(items, id)]
        seen == {acc[k] : k \in 1..Len(acc)}
        acc1 == IF ~item.isContainer /\ item.hasTab /\ item.SavedURL # ""
                   /\ item.SavedURL \notin seen
                THEN Append(acc, item.SavedURL) ELSE acc
    IN collectChildren(items, ResolvedChildren(items, item), acc1)

collectChildren(items, ids, acc) ==
    IF ids = <<>> THEN acc
    ELSE collectChildren(items, Tail(ids), collect(items, Head(ids), acc))

collectAllURLs(items) ==
    collectChildren(items, [k \in 1..Len(items) |-> items[k].ID], <<>>)

(***************************************************************************)
(*                 IMPORT: insertItemWithChildren                          *)
(***************************************************************************)
\* the container id a tab gets: looked up by the space's workspace name
TabContainerID(cd, spaceName) ==
    LET k == findContainerByName(cd.Identities, spaceName)
    IN IF k = 0 THEN 0 ELSE GetUserContextID(cd.Identities[k])

\* the title of an item: explicit, else the tab's saved title, else "Untitled"
ItemTitle(item) ==
    IF item.Title # "" THEN item.Title
    ELSE IF item.hasTab /\ item.SavedTitle # "" THEN item.SavedTitle
    ELSE "Untitled"

\* the url of an item: the tab's saved url, else empty
ItemURL(item) == IF item.hasTab THEN item.SavedURL ELSE ""

\* an anchor tab that is not marked empty
anchorTabNotEmpty(t, workspaceUUID, anchorTabID, containerID, index, folderID) ==
    [Entries |-> <<[URL |-> "about:blank", Title |-> ""]>>,
     LastAccessed |-> t, Pinned |-> TRUE, ZenWorkspace |-> workspaceUUID,
     ZenSyncID |-> anchorTabID, ZenDefaultUserContextID |-> containerID,
     ZenIsEmpty |-> FALSE, UserContextID |-> containerID, Index |-> index,
     GroupID |-> folderID]

\* the anchor tab of a folder
anchorTab(t, workspaceUUID, anchorTabID, containerID, index, folderID) ==
    [Entries |-> <<[URL |-> "about:blank", Title |-> ""]>>,
     LastAccessed |-> t, Pinned |-> TRUE, ZenWorkspace |-> workspaceUUID,
     ZenSyncID |-> anchorTabID, ZenDefaultUserContextID |-> containerID,
     ZenIsEmpty |-> TRUE, UserContextID |-> containerID, Index |-> index,
     GroupID |-> folderID]

\* the tab of a leaf item; GroupID is set only inside a folder
contentTab(t, workspaceUUID, zenUUID, containerID, index, title, url, parentID, image) ==
    [Entries |-> <<[URL |-> url, Title |-> title]>>, Image |-> image,
     LastAccessed |-> t, Pinned |-> TRUE, ZenWorkspace |-> workspaceUUID,
     ZenSyncID |-> zenUUID, ZenDefaultUserContextID |-> containerID,
     ZenIsEmpty |-> FALSE, UserContextID |-> containerID, Index |-> index,
     GroupID |-> IF parentID # "" THEN parentID ELSE ""]

\* prevSiblingInfo chaining root folders as well
prevSiblingInfoAtRootToo(parentFolderID, lfbp) ==
    IF parentFolderID \in DOMAIN lfbp THEN GroupSibling(lfbp[parentFolderID])
    ELSE NilSibling

\* prevSiblingInfo falling back to the last root folder for a first nested folder
prevSiblingInfoRootFallback(parentFolderID, lfbp) ==
    IF parentFolderID # ""
    THEN IF parentFolderID \in DOMAIN lfbp THEN GroupSibling(lfbp[parentFolderID])
         ELSE IF "" \in DOMAIN lfbp THEN GroupSibling(lfbp[""])
         ELSE NilSibling
    ELSE NilSibling

\* prevSiblingInfo of a new folder under parentFolderID
prevSiblingInfo(parentFolderID, lfbp) ==
    IF parentFolderID # ""
    THEN IF parentFolderID \in DOMAIN lfbp THEN GroupSibling(lfbp[parentFolderID])
         ELSE NilSibling
    ELSE NilSibling

\* lastFolderByParent left as it was
recordLastFolderNever(lfbp, parentFolderID, folderID) == lfbp

\* lastFolderByParent[parentFolderID] = folderID
recordLastFolder(lfbp, parentFolderID, folderID) ==
    (parentFolderID :> folderID) @@ lfbp

\* the calls for the children of an item made in backward order
childFramesBackward(item, parentFolderID, sp) ==
    LET kids == ResolvedChildren(arcItems, item)
    IN [k \in 1..Len(kids) |->
           [item |-> kids[Len(kids) + 1 - k], parent |-> parentFolderID, space |-> sp]]

\* the calls made for the children of an item, in forward order
childFrames(item, parentFolderID, sp) ==
    LET kids == ResolvedChildren(arcItems, item)
    IN [k \in 1..Len(kids) |-> [item |-> kids[k], parent |-> parentFolderID, space |-> sp]]

\* one call of insertItemWithChildren: the call at the head of the stack runs
\* up to its recursive calls, which take its place on the stack
InsertItem ==
    /\ pc = "items"
    /\ stack # <<>>
    /\ LET frame == Head(stack)
           arcItem == arcItems[ItemIdx(arcItems, frame.item)]
           space == arcSpaces[frame.space]
           parentFolderID == frame.parent
       IN IF arcItem.isContainer
          THEN /\ stack' = childFrames(arcItem, parentFolderID, frame.space) \o Tail(stack)
               /\ UNCHANGED <<zenSession, lastFolderByParent, pinsCreated,
                              uuidCounter, emitted, faviconVars>>
          ELSE
            LET workspaceUUID == spaceUUIDMap[space.ID]
                containerID == TabContainerID(containersData, SpaceName(space))
                zenUUID == arcToZenUUIDMap[arcItem.ID]
                isFolder == Len(arcItem.ChildrenIds) > 0
                title == ItemTitle(arcItem)
                url == ItemURL(arcItem)
            IN IF isFolder
               THEN
                 LET folderID == FolderIDString(now, Len(zenSession.Folders))
                     anchorTabID == UUIDString(uuidCounter + 1)
                     folder == [Pinned |-> TRUE, ID |-> folderID, Name |-> title,
                                Collapsed |-> TRUE, ParentID |-> parentFolderID,
                                PrevSiblingInfo |->
                                    prevSiblingInfo(parentFolderID, lastFolderByParent),
                                EmptyTabIDs |-> <<anchorTabID>>,
                                WorkspaceID |-> workspaceUUID]
                     group == [ID |-> folderID, Name |-> title, Collapsed |-> TRUE,
                               Pinned |-> TRUE]
                 IN /\ zenSession' =
                          [zenSession EXCEPT
                             !.Tabs = Append(@, anchorTab(now, workspaceUUID, anchorTabID,
                                                 containerID, Len(zenSession.Tabs), folderID)),
                             !.Folders = Append(@, folder),
                             !.Groups = Append(@, group)]
                    /\ lastFolderByParent' =
                          recordLastFolder(lastFolderByParent, parentFolderID, folderID)
                    /\ uuidCounter' = uuidCounter + 1
                    /\ pinsCreated' = pinsCreated + 1
                    /\ stack' = childFrames(arcItem, folderID, frame.space) \o Tail(stack)
                    /\ emitted' =
                          [emitted EXCEPT
                             !.folders = Append(@, [id |-> folderID, item |-> arcItem.ID]),
                             !.items = Append(@, [item |-> arcItem.ID,
                                                  parent |-> parentFolderID,
                                                  space |-> frame.space]),
                             !.tabs = Append(@, [sync |-> anchorTabID, space |-> frame.space])]
                    /\ UNCHANGED faviconVars
               ELSE
                 /\ \E response \in network :
                      LET favicon == IF url # ""
                                     THEN FetchAsDataURL(faviconCache, url, response)
                                     ELSE [result |-> "", cache |-> faviconCache,
                                           requested |-> {}]
                      IN /\ zenSession' =
                               [zenSession EXCEPT
                                  !.Tabs = Append(@, contentTab(now, workspaceUUID, zenUUID,
                                                      containerID, Len(zenSession.Tabs),
                                                      title, url, parentFolderID,
                                                      favicon.result))]
                         /\ faviconCache' = favicon.cache
                         /\ requests' = requests \cup favicon.requested
                 /\ pinsCreated' = pinsCreated + 1
                 /\ stack' = Tail(stack)
                 /\ emitted' =
                       [emitted EXCEPT
                          !.tabs = Append(@, [sync |-> zenUUID, space |-> frame.space]),
                          !.items = Append(@, [item |-> arcItem.ID,
                                               parent |-> parentFolderID,
                                               space |-> frame.space])]
                 /\ UNCHANGED <<lastFolderByParent, uuidCounter>>
    /\ UNCHANGED <<pc, runs, containersData, profiles, pendingProfiles, nextContainerID,
                   spaceUUIDMap, nextSpacePosition, spaceIdx, arcToZenUUIDMap, now>>
    /\ UNCHANGED <<codecVars, sourceVars, collectVars, diskVars, envVars, ioVars, prefetchVars>>


(***************************************************************************)
(*                      IMPORT: Import / doImport                          *)
(***************************************************************************)
EmptyMap == [k \in {} |-> ""]

NoEmitted == [folders |-> <<>>, tabs |-> <<>>, items |-> <<>>]

\* the files an import may touch
Disk == <<sessionFile, containersFile, backups, faviconCache>>

\* Import up to the range loop over the profiles: the session and the registry
\* are read (or created fresh), the profiles collected, the next id computed;
\* a session file that cannot be read ends the import with the error
StartImport ==
    /\ pc = "idle"
    /\ runs < MaxRuns
    /\ runs' = runs + 1
    /\ diskAtStart' = Disk
    /\ backupDone' = FALSE
    /\ emitted' = NoEmitted
    /\ IF readZenSession(sessionFile).err # ""
       THEN /\ outcome' = readZenSession(sessionFile).err
            /\ UNCHANGED <<pc, zenSession, containersData, profiles, pendingProfiles,
                           nextContainerID, spaceUUIDMap, arcToZenUUIDMap,
                           lastFolderByParent, stack, pinsCreated, spaceIdx,
                           nextSpacePosition>>
       ELSE /\ outcome' = "running"
            /\ zenSession' = readZenSession(sessionFile).session
            /\ containersData' =
                  (IF containersFile.exists THEN containersFile.content
                   ELSE FreshContainers)
            /\ profiles' = collectUniqueProfiles(arcSpaces)
            /\ pendingProfiles' = DOMAIN collectUniqueProfiles(arcSpaces)
            /\ nextContainerID' = calculateNextContainerID(containersData')
            /\ pc' = "alloc"
            /\ spaceUUIDMap' = EmptyMap
            /\ arcToZenUUIDMap' = EmptyMap
            /\ lastFolderByParent' = EmptyMap
            /\ stack' = <<>>
            /\ pinsCreated' = 0
            /\ spaceIdx' = 0
            /\ nextSpacePosition' = 0
    /\ UNCHANGED <<now, uuidCounter>>
    /\ UNCHANGED <<codecVars, sourceVars, collectVars, diskVars, envVars, faviconVars, prefetchVars>>

\* one iteration of "for profileName, profile := range profiles": Go visits
\* the keys of a map in an unspecified order
AllocProfile(profileName) ==
    /\ pc = "alloc"
    /\ profileName \in pendingProfiles
    /\ pendingProfiles' = pendingProfiles \ {profileName}
    /\ LET profile == profiles[profileName]
           existingContainer ==
               findContainerByName(containersData.Identities, profile.DisplayName)
       IN IF existingContainer # 0
          THEN /\ profiles' =
                     [profiles EXCEPT ![profileName].ContainerID =
                         GetUserContextID(containersData.Identities[existingContainer])]
               /\ UNCHANGED <<containersData, nextContainerID>>
          ELSE /\ profiles' = [profiles EXCEPT ![profileName].ContainerID = nextContainerID]
               /\ nextContainerID' = nextContainerID + 1
               /\ containersData' =
                     [hasLast |-> TRUE,
                      LastUserContextID |-> nextContainerID,
                      Identities |->
                         Append(containersData.Identities,
                                [hasID |-> TRUE,
                                 UserContextID |-> nextContainerID,
                                 Name |-> profile.DisplayName,
                                 Icon |-> MapArcIconToContainerIcon(profile.Icon),
                                 Color |-> MapArcColorToZen(profile.Color),
                                 Public |-> TRUE])]
    /\ UNCHANGED <<pc, runs, zenSession, spaceUUIDMap, nextSpacePosition, spaceIdx,
                   arcToZenUUIDMap, now, lastFolderByParent, stack, pinsCreated,
                   uuidCounter, emitted>>
    /\ UNCHANGED <<codecVars, sourceVars, collectVars, diskVars, envVars, faviconVars, ioVars,
                   prefetchVars>>

RECURSIVE MaxPosition(_, _, _)
MaxPosition(spaces, i, m) ==
    IF i > Len(spaces) THEN m
    ELSE MaxPosition(spaces, i + 1, IF spaces[i].Position > m THEN spaces[i].Position ELSE m)

\* after the range loop: the position of the next new workspace
BeginSpaces ==
    /\ pc = "alloc"
    /\ pendingProfiles = {}
    /\ nextSpacePosition' = MaxPosition(zenSession.Spaces, 1, 0) + 1000
    /\ spaceIdx' = 1
    /\ pc' = "spaces"
    /\ UNCHANGED <<runs, zenSession, containersData, profiles, pendingProfiles,
                   nextContainerID, spaceUUIDMap, arcToZenUUIDMap, now,
                   lastFolderByParent, stack, pinsCreated, uuidCounter, emitted>>
    /\ UNCHANGED <<codecVars, sourceVars, collectVars, diskVars, envVars, faviconVars, ioVars,
                   prefetchVars>>

\* the theme of a workspace the import creates
NewTheme == [Type |-> "gradient", OpacityPercent |-> 50, Texture |-> "nil"]

\* one iteration of the first loop over the spaces: merge into the workspace
\* of that name, or create one
ProcessSpace ==
    /\ pc = "spaces"
    /\ spaceIdx <= Len(arcSpaces)
    /\ LET space == arcSpaces[spaceIdx]
           spaceName == SpaceName(space)
           arcIcon == SpaceIcon(space)
           containerID == profiles[getProfileName(space)].ContainerID
           existingSpace == findSpaceByName(zenSession.Spaces, spaceName)
       IN IF existingSpace # 0
          THEN LET spaceUUID == zenSession.Spaces[existingSpace].UUID
                   hit == FirstIdx({i \in 1..Len(zenSession.Spaces) :
                                       zenSession.Spaces[i].UUID = spaceUUID})
               IN /\ zenSession' =
                        [zenSession EXCEPT
                           !.Tabs = filterTabs(@, spaceUUID),
                           !.Folders = filterFolders(@, spaceUUID),
                           !.Spaces[hit].Icon = MapArcIconToSvg(arcIcon),
                           !.Spaces[hit].ContainerTabID = containerID]
                  /\ spaceUUIDMap' = (space.ID :> spaceUUID) @@ spaceUUIDMap
                  /\ UNCHANGED <<nextSpacePosition, uuidCounter>>
          ELSE LET spaceUUID == UUIDString(uuidCounter + 1)
               IN /\ zenSession' =
                        [zenSession EXCEPT
                           !.Spaces = Append(@, [UUID |-> spaceUUID,
                                                 Name |-> spaceName,
                                                 Icon |-> MapArcIconToSvg(arcIcon),
                                                 ContainerTabID |-> containerID,
                                                 Position |-> nextSpacePosition,
                                                 Theme |-> NewTheme])]
                  /\ nextSpacePosition' = nextSpacePosition + 1000
                  /\ uuidCounter' = uuidCounter + 1
                  /\ spaceUUIDMap' = (space.ID :> spaceUUID) @@ spaceUUIDMap
    /\ spaceIdx' = spaceIdx + 1
    /\ UNCHANGED <<pc, runs, containersData, profiles, pendingProfiles, nextContainerID,
                   arcToZenUUIDMap, now, lastFolderByParent, stack, pinsCreated, emitted>>
    /\ UNCHANGED <<codecVars, sourceVars, collectVars, diskVars, envVars, faviconVars, ioVars,
                   prefetchVars>>

\* between the loops: the favicons of every url are fetched ahead, then uuids
\* for the items that are no Arc containers, the clock reading, the empty
\* sibling table
afterCollect(allURLs) ==
    /\ IF Len(allURLs) > 0
       THEN faviconCache' \in PreCacheCaches(faviconCache, network, allURLs)
       ELSE faviconCache' = faviconCache
    /\ requests' = {}
    /\ LET itemsToProcess == filterArcContainers(arcItems)
       IN /\ arcToZenUUIDMap' =
                [id \in Range(itemsToProcess) |->
                    UUIDString(uuidCounter +
                        (CHOOSE k \in 1..Len(itemsToProcess) :
                            itemsToProcess[k] = id
                            /\ \A j \in (k + 1)..Len(itemsToProcess) : itemsToProcess[j] # id))]
          /\ uuidCounter' = uuidCounter + Len(itemsToProcess)
    /\ now' = runs
    /\ lastFolderByParent' = EmptyMap
    /\ pinsCreated' = 0
    /\ stack' = <<>>
    /\ spaceIdx' = 1
    /\ pc' = "items"
    /\ UNCHANGED <<runs, zenSession, containersData, profiles, pendingProfiles,
                   nextContainerID, spaceUUIDMap, nextSpacePosition, emitted>>
    /\ UNCHANGED <<codecVars, sourceVars, collectVars, diskVars, envVars, ioVars, prefetchVars>>

\* the same with the url collection taken as one step
PrepareItems ==
    /\ pc = "spaces"
    /\ spaceIdx > Len(arcSpaces)
    /\ afterCollect(collectAllURLs(arcItems))

\* one iteration of the second loop over the spaces: the calls for its root items
BeginSpaceItems ==
    /\ pc = "items"
    /\ stack = <<>>
    /\ spaceIdx <= Len(arcSpaces)
    /\ LET rootItems == getRootItemsForSpace(arcSpaces[spaceIdx], arcItems)
       IN stack' = [k \in 1..Len(rootItems) |->
                       [item |-> rootItems[k], parent |-> "", space |-> spaceIdx]]
    /\ spaceIdx' = spaceIdx + 1
    /\ UNCHANGED <<pc, runs, zenSession, containersData, profiles, pendingProfiles,
                   nextContainerID, spaceUUIDMap, nextSpacePosition, arcToZenUUIDMap,
                   now, lastFolderByParent, pinsCreated, uuidCounter, emitted>>
    /\ UNCHANGED <<codecVars, sourceVars, collectVars, diskVars, envVars, faviconVars, ioVars,
                   prefetchVars>>

\* writeContainers keeping every identity
validIdentitiesKeepAll(ids) == ids

\* writeContainers: the identities kept in containers.json
validIdentities(ids) ==
    LET Keep(container) == ~container.Public \/ HasValidUserContextID(container)
    IN SelectSeq(ids, Keep)

runLocals == <<runs, zenSession, profiles, pendingProfiles, nextContainerID,
               spaceUUIDMap, nextSpacePosition, spaceIdx, arcToZenUUIDMap, now,
               lastFolderByParent, stack, pinsCreated, uuidCounter, emitted>>

\* doImport returns and Import goes on to write, whatever the mode
FinishImportAlwaysWrite ==
    /\ pc = "items"
    /\ stack = <<>>
    /\ spaceIdx > Len(arcSpaces)
    /\ pc' = "containers"
    /\ UNCHANGED <<runLocals, containersData, ioVars>>
    /\ UNCHANGED <<codecVars, sourceVars, collectVars, diskVars, envVars, faviconVars, prefetchVars>>

\* doImport returns; in dry-run mode Import ends here, else it goes on to write
FinishImport ==
    /\ pc = "items"
    /\ stack = <<>>
    /\ spaceIdx > Len(arcSpaces)
    /\ IF dryRun
       THEN pc' = "idle" /\ outcome' = "ok"
       ELSE pc' = "containers" /\ outcome' = outcome
    /\ UNCHANGED <<runLocals, containersData, diskAtStart, backupDone>>
    /\ UNCHANGED <<codecVars, sourceVars, collectVars, diskVars, envVars, faviconVars, prefetchVars>>

\* writeContainers: the registry is filtered and containers.json written
WriteContainers ==
    /\ pc = "containers"
    /\ containersData' =
          [containersData EXCEPT !.Identities = validIdentities(@)]
    /\ containersFile' = [exists |-> TRUE, content |-> containersData']
    /\ pc' = "backup"
    /\ UNCHANGED <<runLocals, sessionFile, backups, ioVars>>
    /\ UNCHANGED <<codecVars, sourceVars, collectVars, envVars, faviconVars, prefetchVars>>

\* writeContainers when os.WriteFile fails: Import returns the error
WriteContainersFails ==
    /\ pc = "containers"
    /\ containersData' =
          [containersData EXCEPT !.Identities = validIdentities(@)]
    /\ pc' = "idle"
    /\ outcome' = "failed to write containers"
    /\ UNCHANGED <<runLocals, diskAtStart, backupDone>>
    /\ UNCHANGED <<codecVars, sourceVars, collectVars, diskVars, envVars, faviconVars, prefetchVars>>

\* writeZenSession, its call of backupSession: the session file, if there is
\* one, is copied into the backup directory
BackupSession ==
    /\ pc = "backup"
    /\ IF sessionFile.exists
       THEN backups' = backups \cup {sessionFile} /\ backupDone' = TRUE
       ELSE UNCHANGED <<backups, backupDone>>
    /\ pc' = "session"
    /\ UNCHANGED <<runLocals, containersData, sessionFile, containersFile, outcome,
                   diskAtStart>>
    /\ UNCHANGED <<codecVars, sourceVars, collectVars, envVars, faviconVars, prefetchVars>>

\* backupSession failing (the directory cannot be made, the copy cannot be
\* written): writeZenSession logs a warning and goes on
BackupSessionFails ==
    /\ pc = "backup"
    /\ sessionFile.exists
    /\ pc' = "session"
    /\ UNCHANGED <<runLocals, containersData, ioVars>>
    /\ UNCHANGED <<codecVars, sourceVars, collectVars, diskVars, envVars, faviconVars, prefetchVars>>

\* writeZenSession after the backup: marshal, compress, write
WriteSession ==
    /\ pc = "session"
    /\ IF Compress(SessionJSON(zenSession)).err
       THEN /\ outcome' = "failed to compress session"
            /\ UNCHANGED sessionFile
       ELSE /\ outcome' = "ok"
            /\ sessionFile' = SessionFileOf(zenSession)
    /\ pc' = "idle"
    /\ UNCHANGED <<runLocals, containersData, containersFile, backups, diskAtStart,
                   backupDone>>
    /\ UNCHANGED <<codecVars, sourceVars, collectVars, envVars, faviconVars, prefetchVars>>

\* writeZenSession when os.WriteFile fails: Import returns the error
WriteSessionFails ==
    /\ pc = "session"
    /\ pc' = "idle"
    /\ outcome' = "failed to write session"
    /\ UNCHANGED <<runLocals, containersData, diskAtStart, backupDone>>
    /\ UNCHANGED <<codecVars, sourceVars, collectVars, diskVars, envVars, faviconVars, prefetchVars>>

(***************************************************************************)
(*          IMPORT: collectAllURLs, one call of collect at a time          *)
(***************************************************************************)
\* the calls a frame makes, as positions in arcItems: the loop over all the
\* items (item 0), or the children of an item that resolve in itemsMap
callsOf(frame) ==
    IF frame.item = 0 THEN [k \in 1..Len(arcItems) |-> k]
    ELSE LET kids == ResolvedChildren(arcItems, arcItems[frame.item])
         IN [k \in 1..Len(kids) |-> ItemIdx(arcItems, kids[k])]

\* the url an item adds to the slice: a tab's saved url not seen before
withURL(acc, item) ==
    IF ~item.isContainer /\ item.hasTab /\ item.SavedURL # ""
       /\ item.SavedURL \notin Range(acc)
    THEN Append(acc, item.SavedURL) ELSE acc

collectUnchanged ==
    /\ UNCHANGED <<runLocals, containersData, ioVars>>
    /\ UNCHANGED <<codecVars, sourceVars, diskVars, envVars, faviconVars, prefetchVars>>

\* the first loop over the spaces is over: collectAllURLs is entered
CollectBegin ==
    /\ pc = "spaces"
    /\ spaceIdx > Len(arcSpaces)
    /\ pc' = "collect"
    /\ callStack' = <<[item |-> 0, next |-> 1]>>
    /\ collected' = <<>>
    /\ visited' = {}
    /\ collectUnchanged

\* a call of collect that passes over the children met before
CollectCallUnvisited ==
    /\ pc = "collect"
    /\ callStack # <<>>
    /\ LET d == Len(callStack)
           todo == callsOf(callStack[d])
       IN /\ callStack[d].next <= Len(todo)
          /\ d < MaxDepth
          /\ LET c == todo[callStack[d].next]
             IN IF c \in visited
                THEN /\ callStack' = [callStack EXCEPT ![d].next = @ + 1]
                     /\ UNCHANGED <<collected, visited>>
                ELSE /\ callStack' = Append([callStack EXCEPT ![d].next = @ + 1],
                                            [item |-> c, next |-> 1])
                     /\ collected' = withURL(collected, arcItems[c])
                     /\ visited' = visited \cup {c}
    /\ pc' = pc
    /\ collectUnchanged

\* the innermost call goes on to its next child: collect is called on it
CollectCall ==
    /\ pc = "collect"
    /\ callStack # <<>>
    /\ LET d == Len(callStack)
           todo == callsOf(callStack[d])
       IN /\ callStack[d].next <= Len(todo)
          /\ d < MaxDepth
          /\ LET c == todo[callStack[d].next]
             IN /\ callStack' = Append([callStack EXCEPT ![d].next = @ + 1],
                                       [item |-> c, next |-> 1])
                /\ collected' = withURL(collected, arcItems[c])
                /\ visited' = visited \cup {c}
    /\ pc' = pc
    /\ collectUnchanged

\* the innermost call has no child left and returns
CollectRet ==
    /\ pc = "collect"
    /\ callStack # <<>>
    /\ LET d == Len(callStack)
       IN /\ callStack[d].next > Len(callsOf(callStack[d]))
          /\ callStack' = SubSeq(callStack, 1, d - 1)
    /\ UNCHANGED <<pc, collected, visited>>
    /\ collectUnchanged

\* the goroutine's stack is full when the next call is due: the runtime ends
\* the process
CollectOverflow ==
    /\ pc = "collect"
    /\ callStack # <<>>
    /\ LET d == Len(callStack)
       IN /\ callStack[d].next <= Len(callsOf(callStack[d]))
          /\ d = MaxDepth
    /\ pc' = "crashed"
    /\ UNCHANGED <<callStack, collected, visited>>
    /\ collectUnchanged

\* collectAllURLs has returned: doImport goes on with the urls it got
CollectDone ==
    /\ pc = "collect"
    /\ callStack = <<>>
    /\ afterCollect(collected)

\* what an import does once it is called, the url collection call by call
WalkSteps ==
    \/ \E profileName \in pendingProfiles : AllocProfile(profileName)
    \/ BeginSpaces
    \/ ProcessSpace
    \/ CollectBegin
    \/ CollectCall
    \/ CollectRet
    \/ CollectOverflow
    \/ CollectDone
    \/ BeginSpaceItems
    \/ InsertItem
    \/ FinishImport
    \/ WriteContainers
    \/ BackupSession
    \/ WriteSession

NextWalk ==
    \/ StartImport
    \/ WalkSteps

NextImport ==
    \/ StartImport
    \/ \E profileName \in pendingProfiles : AllocProfile(profileName)
    \/ BeginSpaces
    \/ ProcessSpace
    \/ PrepareItems
    \/ BeginSpaceItems
    \/ InsertItem
    \/ FinishImport
    \/ WriteContainers
    \/ BackupSession
    \/ WriteSession

\* an import on a machine where writing may fail
NextIO ==
    \/ NextImport
    \/ WriteContainersFails
    \/ BackupSessionFails
    \/ WriteSessionFails


(***************************************************************************)
(*                        INITIAL STATES                                   *)
(***************************************************************************)
ItemID(i) == "i" \o ToString(i)
SpaceID(k) == "s" \o ToString(k)

\* a child id and a root id that resolve to no item
GoneID == "gone"

\* a parsed item
Item(id, title, children, isContainer, hasTab, savedTitle, savedURL) ==
    [ID |-> id, Title |-> title, ChildrenIds |-> children, isContainer |-> isContainer,
     hasTab |-> hasTab, SavedTitle |-> savedTitle, SavedURL |-> savedURL]

\* a parsed space; its root list starts with a marker string, holds an object
\* entry and ends with an id that resolves to nothing
Space(k, title, profile, roots) ==
    [ID |-> SpaceID(k), Title |-> title, Icon |-> "star", CustomIcon |-> "",
     Profile |-> profile,
     ContainerIDs |-> <<StrRef("pinned")>> \o [j \in 1..Len(roots) |-> StrRef(roots[j])]
                      \o <<ObjRef, StrRef(GoneID)>>]

\* a session Zen wrote itself: workspace "Foo" with a pinned tab, an unpinned
\* tab and a folder, and workspace "Home" with a pinned tab and a folder
UserTheme == [Type |-> "gradient", OpacityPercent |-> 30, Texture |-> "grain"]

UserTab(ws, sync, pinned, isEmpty, group) ==
    [Entries |-> <<[URL |-> "https://user.example", Title |-> "user"]>>,
     LastAccessed |-> 0, Pinned |-> pinned, ZenWorkspace |-> ws, ZenSyncID |-> sync,
     ZenDefaultUserContextID |-> 0, ZenIsEmpty |-> isEmpty, UserContextID |-> 0,
     Index |-> 0, GroupID |-> group]

UserFolder(ws, id, anchor) ==
    [Pinned |-> TRUE, ID |-> id, Name |-> "mine", Collapsed |-> FALSE, ParentID |-> "",
     PrevSiblingInfo |-> NilSibling, EmptyTabIDs |-> <<anchor>>, WorkspaceID |-> ws]

UserSession ==
    [Spaces |-> <<[UUID |-> "{w}", Name |-> "Foo", Icon |-> "old.svg",
                   ContainerTabID |-> 0, Position |-> 1000, Theme |-> UserTheme],
                  [UUID |-> "{h}", Name |-> "Home", Icon |-> "home.svg",
                   ContainerTabID |-> 0, Position |-> 2000, Theme |-> UserTheme]>>,
     Tabs |-> <<UserTab("{w}", "{wp}", TRUE, FALSE, ""),
                UserTab("{w}", "{wu}", FALSE, FALSE, ""),
                UserTab("{w}", "{wa}", TRUE, TRUE, "0-0"),
                UserTab("{h}", "{hp}", TRUE, FALSE, ""),
                UserTab("{h}", "{ha}", TRUE, TRUE, "0-1")>>,
     Folders |-> <<UserFolder("{w}", "0-0", "{wa}"), UserFolder("{h}", "0-1", "{ha}")>>,
     Groups |-> <<[ID |-> "0-0", Name |-> "mine", Collapsed |-> FALSE, Pinned |-> TRUE],
                  [ID |-> "0-1", Name |-> "mine", Collapsed |-> FALSE, Pinned |-> TRUE]>>]

SessionFiles == {NoSessionFile, SessionFileOf(UserSession)}

Identity(hasID, id, name, public) ==
    [hasID |-> hasID, UserContextID |-> id, Name |-> name, Icon |-> "circle",
     Color |-> "blue", Public |-> public]

\* registries found on disk: none; one with a built-in container and a public
\* container "Foo"; one with a public "Foo" that lost its id and an internal "Bar"
ContainersFiles ==
    {NoContainersFile,
     [exists |-> TRUE,
      content |-> [hasLast |-> TRUE, LastUserContextID |-> 2,
                   Identities |-> <<Identity(TRUE, 1, "", TRUE),
                                    Identity(TRUE, 2, "Foo", TRUE)>>]],
     [exists |-> TRUE,
      content |-> [hasLast |-> FALSE, LastUserContextID |-> 0,
                   Identities |-> <<Identity(FALSE, 0, "Foo", TRUE),
                                    Identity(TRUE, 3, "Bar", FALSE)>>]]}

InitRunIdle ==
    /\ pc = "idle"
    /\ runs = 0
    /\ zenSession = FreshSession
    /\ containersData = FreshContainers
    /\ profiles = EmptyMap
    /\ pendingProfiles = {}
    /\ nextContainerID = 0
    /\ spaceUUIDMap = EmptyMap
    /\ nextSpacePosition = 0
    /\ spaceIdx = 0
    /\ arcToZenUUIDMap = EmptyMap
    /\ now = 0
    /\ lastFolderByParent = EmptyMap
    /\ stack = <<>>
    /\ pinsCreated = 0
    /\ uuidCounter = 0
    /\ emitted = NoEmitted
    /\ callStack = <<>>
    /\ collected = <<>>
    /\ visited = {}

\* nothing prefetched, no call of the fetcher under way
InitPrefetchIdle ==
    /\ ppc = "idle"
    /\ urls = <<>>
    /\ workers = 1
    /\ urlChan = <<>>
    /\ chanClosed = FALSE
    /\ sendIdx = 1
    /\ wpc = <<>>
    /\ wurl = <<>>
    /\ wg = 0
    /\ result = NoPreCacheResult
    /\ processed = 0
    /\ calls = 0
    /\ lastFetch = NoFetch
    /\ markedAtStart = {}
    /\ taken = <<>>
    /\ tally = <<>>

\* no run made yet
InitIOIdle ==
    /\ outcome = "none"
    /\ diskAtStart = Disk
    /\ backupDone = FALSE
    /\ requests = {}

\* a machine whose writes succeed and whose servers answer with an icon
InitEnvPlain ==
    /\ dryRun = FALSE
    /\ network = {"ok"}
    /\ backups = {}
    /\ faviconCache = EmptyCache

InitCodecIdle ==
    /\ cpc = "idle"
    /\ data = <<>>
    /\ compressed = NoResult
    /\ decompressed = NoResult

\* ---- SpecCodec ----
InitCodec ==
    /\ cpc = "input"
    /\ data \in SeqsUpTo(PayloadBytes, MaxLen)
    /\ compressed = NoResult
    /\ decompressed = NoResult
    /\ arcSpaces = <<>>
    /\ arcItems = <<>>
    /\ sessionFile = NoSessionFile
    /\ containersFile = NoContainersFile
    /\ InitRunIdle
    /\ InitEnvPlain
    /\ InitIOIdle
    /\ InitPrefetchIdle

SpecCodec == InitCodec /\ [][NextCodec]_vars

\* ---- SpecPrefetch ----
\* page urls: a page, a host with a port, a scheme that is not http, a string
\* without scheme and host, the empty string; a list may name a url twice
PrefetchURLs == {"https://a.com/1", "http://b.com:8080/", "ftp://f.com/x", "not-a-url", ""}

\* cache directories found at the start: empty, or holding a failure marker
\* and an icon from an earlier run
PrefetchCaches ==
    {EmptyCache,
     [EmptyCache EXCEPT ![CachePath("a.com")] = failedMarker,
                        ![CachePath("b.com:8080")] = encodeAsDataURL("icon:b.com:8080")]}

InitPrefetch ==
    /\ InitCodecIdle
    /\ InitRunIdle
    /\ arcSpaces = <<>>
    /\ arcItems = <<>>
    /\ sessionFile = NoSessionFile
    /\ containersFile = NoContainersFile
    /\ backups = {}
    /\ dryRun = FALSE
    /\ network = {"ok", "fail", "empty"}
    /\ faviconCache \in PrefetchCaches
    /\ InitIOIdle
    /\ ppc = "idle"
    /\ urls \in SeqsUpTo(PrefetchURLs, MaxURLs)
    /\ workers \in 1..MaxWorkers
    /\ urlChan = <<>>
    /\ chanClosed = FALSE
    /\ sendIdx = 1
    /\ wpc = <<>>
    /\ wurl = <<>>
    /\ wg = 0
    /\ result = NoPreCacheResult
    /\ processed = 0
    /\ calls = 0
    /\ lastFetch = NoFetch
    /\ markedAtStart = {}
    /\ taken = <<>>
    /\ tally = <<>>

SpecPrefetch == InitPrefetch /\ [][NextPrefetch]_vars

\* ---- SpecAlloc ----
AllocTitles == {"", "Foo", "Bar"}
AllocProfiles == {DefaultProfile, CustomProfile("P1")}

\* space k owns a folder holding one tab
AllocItems(n) ==
    [j \in 1..(2 * n) |->
        IF j % 2 = 1
        THEN Item(ItemID(j), "Folder", <<ItemID(j + 1), GoneID>>, FALSE, FALSE, "", "")
        ELSE Item(ItemID(j), "", <<>>, FALSE, TRUE, "Tab", "https://" \o ItemID(j) \o ".com")]

\* the registries of ContainersFiles, and one whose last allocated id is
\* above the ids of its identities
AllocContainersFiles ==
    ContainersFiles
    \cup {[exists |-> TRUE,
           content |-> [hasLast |-> TRUE, LastUserContextID |-> 6,
                        Identities |-> <<Identity(TRUE, 4, "Work", TRUE)>>]]}

InitAlloc ==
    /\ InitCodecIdle
    /\ InitRunIdle
    /\ InitEnvPlain
    /\ InitPrefetchIdle
    /\ sessionFile = NoSessionFile
    /\ containersFile \in AllocContainersFiles
    /\ \E n \in 1..MaxSpaces :
         \E titles \in [1..n -> AllocTitles], profs \in [1..n -> AllocProfiles] :
            /\ arcSpaces = [k \in 1..n |->
                               Space(k, titles[k], profs[k], <<ItemID(2 * k - 1)>>)]
            /\ arcItems = AllocItems(n)
    /\ InitIOIdle

\* the first import into the directory
NextAlloc == NextImport /\ runs' <= 1

SpecAlloc == InitAlloc /\ [][NextAlloc]_vars

\* ---- SpecTree ----
TreeSpaces == <<[title |-> "Foo", profile |-> DefaultProfile],
                [title |-> "Bar", profile |-> CustomProfile("P1")]>>

\* a forest over items 1..n: parent[i] < 0 makes item i a root of space
\* -parent[i], parent[i] > 0 makes it a child of that earlier item; the
\* children of an item are listed in increasing order
Forests(n) == {f \in [1..n -> (-Len(TreeSpaces))..(n - 1)] :
                  \A i \in 1..n : f[i] # 0 /\ f[i] < i}

RECURSIVE IdsWhere(_, _, _)
\* the ids of the items i >= from with parent[i] = p, in increasing order
IdsWhere(parent, p, from) ==
    IF from > Len(parent) THEN <<>>
    ELSE IF parent[from] = p THEN <<ItemID(from)>> \o IdsWhere(parent, p, from + 1)
    ELSE IdsWhere(parent, p, from + 1)

\* item i of a forest. alt[i] picks its shape: with children, an Arc container
\* (alt) or a folder; without, a folder whose only child id resolves to
\* nothing (alt) or a tab. A list of children ends with an id that resolves
\* to nothing.
TreeItems(parent, alt) ==
    [i \in 1..Len(parent) |->
        LET kids == IdsWhere(parent, i, 1)
        IN Item(ItemID(i),
                IF kids = <<>> /\ ~alt[i] THEN "" ELSE "N" \o ToString(i),
                IF kids = <<>> THEN (IF alt[i] THEN <<GoneID>> ELSE <<>>)
                ELSE kids \o <<GoneID>>,
                kids # <<>> /\ alt[i],
                kids = <<>> /\ ~alt[i],
                IF i % 2 = 1 THEN "T" \o ToString(i) ELSE "",
                "https://" \o ItemID(i) \o ".com")]

InitTree ==
    /\ InitCodecIdle
    /\ InitRunIdle
    /\ InitEnvPlain
    /\ InitPrefetchIdle
    /\ sessionFile \in SessionFiles
    /\ containersFile = NoContainersFile
    /\ \E parent \in Forests(MaxItems), alt \in [1..MaxItems -> BOOLEAN] :
          /\ arcSpaces = [k \in 1..Len(TreeSpaces) |->
                             Space(k, TreeSpaces[k].title, TreeSpaces[k].profile,
                                   IdsWhere(parent, -k, 1))]
          /\ arcItems = TreeItems(parent, alt)
    /\ InitIOIdle

SpecTree == InitTree /\ [][NextImport]_vars

\* ---- SpecWalk ----
\* catalogs whose child ids may lead back: item i has the child f[i] (none
\* when 0), item 1 also the last item, listed first (fan). An item with
\* children is a folder, or an Arc container when alt holds and i is even;
\* one without is a tab. Items 1 and 3 share a url.
WalkItems(f, fan, alt) ==
    [i \in 1..Len(f) |->
        LET kids == (IF fan /\ i = 1 THEN <<ItemID(Len(f))>> ELSE <<>>)
                    \o (IF f[i] # 0 THEN <<ItemID(f[i])>> ELSE <<>>)
        IN Item(ItemID(i), "N" \o ToString(i), kids,
                kids # <<>> /\ alt /\ i % 2 = 0,
                kids = <<>>,
                "T" \o ToString(i),
                "https://" \o ItemID((i % 2) + 1) \o ".com")]

InitWalk ==
    /\ InitCodecIdle
    /\ InitRunIdle
    /\ InitPrefetchIdle
    /\ InitEnvPlain
    /\ requests = {}
    /\ sessionFile = NoSessionFile
    /\ containersFile = NoContainersFile
    /\ arcSpaces = <<Space(1, "Foo", DefaultProfile, <<ItemID(1)>>)>>
    /\ \E f \in [1..MaxItems -> 0..MaxItems], fan \in BOOLEAN, alt \in BOOLEAN :
          arcItems = WalkItems(f, fan, alt)
    /\ InitIOIdle

\* the goroutine of an import goes on while it can
SpecWalk == InitWalk /\ [][NextWalk]_vars /\ WF_vars(WalkSteps)

\* ---- SpecIO ----
\* the bytes of a session file Firefox wrote for UserSession
UserSessionBytes == SessionFileOf(UserSession).bytes

\* session files found on disk: none, a good one, one cut short inside the
\* header, one with a wrong magic byte, one whose compressed block is cut
\* short, one whose text is no session
IOSessionFiles ==
    {NoSessionFile,
     SessionFileOf(UserSession),
     [SessionFileOf(UserSession) EXCEPT !.bytes = SubSeq(UserSessionBytes, 1, 5)],
     [SessionFileOf(UserSession) EXCEPT !.bytes = [UserSessionBytes EXCEPT ![1] = 0]],
     [SessionFileOf(UserSession) EXCEPT
        !.bytes = SubSeq(UserSessionBytes, 1, Len(UserSessionBytes) - 1)],
     [SessionFileOf(UserSession) EXCEPT !.bytes = Compress(<<9, 9, 9>>).out]}

IOURLs == {"https://a.com/1", "http://b.com:8080/", "not-a-url"}

\* one space whose folder holds two tabs
IOItems(u1, u2) ==
    <<Item(ItemID(1), "Folder", <<ItemID(2), ItemID(3)>>, FALSE, FALSE, "", ""),
      Item(ItemID(2), "", <<>>, FALSE, TRUE, "Tab", u1),
      Item(ItemID(3), "", <<>>, FALSE, TRUE, "Tab", u2)>>

InitIO ==
    /\ InitCodecIdle
    /\ InitRunIdle
    /\ InitPrefetchIdle
    /\ dryRun \in BOOLEAN
    /\ network = {"ok", "fail", "empty"}
    /\ backups = {}
    /\ faviconCache \in PrefetchCaches
    /\ sessionFile \in IOSessionFiles
    /\ containersFile \in ContainersFiles
    /\ \E prof \in AllocProfiles :
          arcSpaces = <<Space(1, "Foo", prof, <<ItemID(1)>>)>>
    /\ \E u1 \in IOURLs, u2 \in IOURLs : arcItems = IOItems(u1, u2)
    /\ InitIOIdle

SpecIO == InitIO /\ [][NextIO]_vars

(***************************************************************************)
(*                             CLAIMS                                      *)
(***************************************************************************)
\* ---- helpers of the claims ----
Reverse(s) == [k \in 1..Len(s) |-> s[Len(s) + 1 - k]]

FolderIDs == {zenSession.Folders[k].ID : k \in 1..Len(zenSession.Folders)}

FolderByID(fid) == CHOOSE f \in Range(zenSession.Folders) : f.ID = fid

\* the folders of the session with the given parent id, in append order
FoldersUnder(parentID) ==
    LET Under(f) == f.ParentID = parentID IN SelectSeq(zenSession.Folders, Under)

IDsOf(fs) == [k \in 1..Len(fs) |-> fs[k].ID]

\* the source item a folder of the current run was emitted for
ItemOfFolder(fid) ==
    (CHOOSE e \in Range(emitted.folders) : e.id = fid).item

ItemByID(id) == arcItems[ItemIdx(arcItems, id)]

RECURSIVE Flatten(_)
\* a list of item ids with every Arc container replaced by its flattened children
Flatten(ids) ==
    IF ids = <<>> THEN <<>>
    ELSE LET item == ItemByID(Head(ids))
         IN (IF item.isContainer THEN Flatten(ResolvedChildren(arcItems, item))
             ELSE <<Head(ids)>>)
            \o Flatten(Tail(ids))

\* the ids of the source items that become the child folders of an item
ExpectedChildFolders(id) ==
    LET IsFolder(c) == Len(ItemByID(c).ChildrenIds) > 0
    IN SelectSeq(Flatten(ResolvedChildren(arcItems, ItemByID(id))), IsFolder)

RECURSIVE WalkBack(_, _)
\* the folder ids met from fid following previous-sibling references
WalkBack(fid, fuel) ==
    IF fuel = 0 \/ fid \notin FolderIDs THEN <<"lost">>
    ELSE LET f == FolderByID(fid)
         IN IF f.PrevSiblingInfo = NilSibling THEN <<fid>>
            ELSE <<fid>> \o WalkBack(f.PrevSiblingInfo.id, fuel - 1)

\* C1: for every payload x, the empty one included, Compress(x) succeeds and
\* Decompress(Compress(x)) succeeds and returns exactly x.
C1_RoundTrip ==
    /\ cpc \in {"compressed", "decompressed"} => ~compressed.err
    /\ cpc = "decompressed" => ~decompressed.err /\ decompressed.out = data

C1_Witness == cpc = "decompressed" /\ Len(data) = 2 /\ decompressed.out = data

\* C2: for every folder F emitted in the run, the folders emitted with parent
\* context F (children lifted through Arc containers included) are the child
\* folders of F's item in source order, and walking the previous-sibling
\* references from the last one emitted visits each of them once, in reverse
\* source order, ending at the first, whose reference is empty.
C2_SiblingChain ==
    \A k \in 1..Len(emitted.folders) :
        LET F == emitted.folders[k]
            kids == FoldersUnder(F.id)
            expected == ExpectedChildFolders(F.item)
        IN /\ Len(kids) <= Len(expected)
           /\ \A j \in 1..Len(kids) : ItemOfFolder(kids[j].ID) = expected[j]
           /\ (pc = "idle" => Len(kids) = Len(expected))
           /\ (kids # <<>> =>
                 /\ WalkBack(kids[Len(kids)].ID, Len(zenSession.Folders) + 1)
                        = Reverse(IDsOf(kids))
                 /\ kids[1].PrevSiblingInfo = NilSibling)

C2_Witness ==
    /\ pc = "idle"
    /\ \E k \in 1..Len(emitted.folders) :
          /\ Len(FoldersUnder(emitted.folders[k].id)) >= 2
          /\ Len(ExpectedChildFolders(emitted.folders[k].item)) >= 2

\* the root folders the run emitted into one workspace, in append order
RootFoldersOf(ws) ==
    LET Hit(f) == f.ParentID = "" /\ f.WorkspaceID = ws
                  /\ \E e \in Range(emitted.folders) : e.id = f.ID
    IN SelectSeq(zenSession.Folders, Hit)

Workspaces == {zenSession.Spaces[k].UUID : k \in 1..Len(zenSession.Spaces)}

C4_AnchorTab ==
    \A e \in Range(emitted.folders) :
        /\ e.id \in FolderIDs
        /\ \A f \in Range(zenSession.Folders) :
              f.ID = e.id =>
                 \E t \in Range(zenSession.Tabs) :
                    /\ t.ZenIsEmpty
                    /\ t.Pinned
                    /\ t.GroupID = f.ID
                    /\ t.ZenSyncID \in Range(f.EmptyTabIDs)

C4_Witness ==
    /\ pc = "idle"
    /\ runs = 2
    /\ Len(emitted.folders) >= 2

TabSyncIDs == {zenSession.Tabs[k].ZenSyncID : k \in 1..Len(zenSession.Tabs)}

\* C5: every non-empty previous-sibling reference written by the import has
\* type "group" and names a folder of the session with the same parent id and
\* the same workspace; it is never the sync id of a tab.
C5_SiblingRefsAreFolders ==
    \A e \in Range(emitted.folders) :
        \A f \in Range(zenSession.Folders) :
            (f.ID = e.id /\ f.PrevSiblingInfo # NilSibling) =>
                /\ f.PrevSiblingInfo.type = "group"
                /\ f.PrevSiblingInfo.id \notin TabSyncIDs
                /\ \E g \in Range(zenSession.Folders) :
                      /\ g.ID = f.PrevSiblingInfo.id
                      /\ g.ID # f.ID
                      /\ g.ParentID = f.ParentID
                      /\ g.WorkspaceID = f.WorkspaceID

C5_Witness ==
    /\ pc = "idle"
    /\ \E e \in Range(emitted.folders) :
          e.id \in FolderIDs /\ FolderByID(e.id).PrevSiblingInfo # NilSibling


\* ---- helpers of the claims about workspaces and containers ----
SpaceNames == {SpaceName(arcSpaces[k]) : k \in 1..Len(arcSpaces)}

WorkspacesNamed(session, name) ==
    {j \in 1..Len(session.Spaces) : session.Spaces[j].Name = name}

EmittedSyncIDs == {emitted.tabs[k].sync : k \in 1..Len(emitted.tabs)}

EmittedFolderIDs == {emitted.folders[k].id : k \in 1..Len(emitted.folders)}

\* the registry as the run found it on disk
PreRegistry ==
    IF containersFile.exists THEN containersFile.content ELSE FreshContainers

\* the first space, in source order, that uses the profile
FirstSpaceOf(profileName) ==
    CHOOSE i \in 1..Len(arcSpaces) :
        /\ getProfileName(arcSpaces[i]) = profileName
        /\ \A j \in 1..(i - 1) : getProfileName(arcSpaces[j]) # profileName

ExpectedDisplayName(profileName) ==
    LET title == arcSpaces[FirstSpaceOf(profileName)].Title
    IN IF title = "" THEN profileName ELSE title

\* the profile needs a new container: the registry on disk has none of its name
NeedsNewContainer(profileName) ==
    findContainerByName(PreRegistry.Identities, ExpectedDisplayName(profileName)) = 0

WorkspaceOf(i) ==
    CHOOSE w \in Range(zenSession.Spaces) : w.UUID = spaceUUIDMap[arcSpaces[i].ID]

\* C6: in a run that follows another run over the same source data, every
\* space name has exactly one workspace, whose id is the one the session
\* written by the previous run holds for that name, and the pinned tabs and
\* the folders that workspace owns are only those the current run emitted.
C6_SecondRunMerges ==
    (runs >= 2 /\ pc \in {"items", "idle"}) =>
        \A i \in 1..Len(arcSpaces) :
            LET name == SpaceName(arcSpaces[i])
                ws == spaceUUIDMap[arcSpaces[i].ID]
            IN /\ Cardinality(WorkspacesNamed(zenSession, name)) = 1
               /\ \A j \in WorkspacesNamed(zenSession, name) :
                     zenSession.Spaces[j].UUID = ws
               /\ (pc = "items" =>
                     \E j \in WorkspacesNamed(sessionFile.content, name) :
                        sessionFile.content.Spaces[j].UUID = ws)
               /\ \A t \in Range(zenSession.Tabs) :
                     (t.Pinned /\ t.ZenWorkspace = ws) => t.ZenSyncID \in EmittedSyncIDs
               /\ \A f \in Range(zenSession.Folders) :
                     f.WorkspaceID = ws => f.ID \in EmittedFolderIDs

C6_Witness ==
    /\ runs = 2
    /\ pc = "idle"
    /\ Len(emitted.tabs) >= 2
    /\ \E t \in Range(zenSession.Tabs) : ~t.Pinned

\* C7: every tab emitted for a space, content tab or anchor tab, carries the
\* container id the allocator resolved for the profile of that space, which
\* is the container id of the workspace that owns the tab.
C7_TabsCarryProfileContainer ==
    \A e \in Range(emitted.tabs) :
        \A t \in Range(zenSession.Tabs) :
            t.ZenSyncID = e.sync =>
                /\ t.UserContextID =
                      profiles[getProfileName(arcSpaces[e.space])].ContainerID
                /\ t.UserContextID = WorkspaceOf(e.space).ContainerTabID

\* C8: once the workspaces are assigned, for every profile whose display name
\* had no container in the registry, exactly one identity was created with
\* that name (the title of the first space of the profile, else the profile's
\* name), it carries the profile's container id, and the workspace of every
\* space of the profile has that container id.
C8_OneContainerPerProfile ==
    pc = "items" =>
        \A p \in DOMAIN profiles :
            NeedsNewContainer(p) =>
                LET made == {k \in 1..Len(containersData.Identities) :
                                /\ k > Len(PreRegistry.Identities)
                                /\ containersData.Identities[k].Name
                                      = ExpectedDisplayName(p)}
                IN /\ Cardinality(made) = 1
                   /\ \A k \in made :
                         GetUserContextID(containersData.Identities[k])
                            = profiles[p].ContainerID
                   /\ \A i \in 1..Len(arcSpaces) :
                         getProfileName(arcSpaces[i]) = p =>
                            WorkspaceOf(i).ContainerTabID = profiles[p].ContainerID

\* C9: after the allocator has run, two different profiles never have the
\* same container id.
C9_DistinctContainers ==
    pc \in {"spaces", "items"} =>
        \A p, q \in DOMAIN profiles :
            p # q => profiles[p].ContainerID # profiles[q].ContainerID

\* C10: new container ids are handed out in first-seen profile order: of two
\* profiles that both need a new container, the one first seen earlier in the
\* source gets the smaller id.
C10_FirstSeenOrder ==
    pc \in {"spaces", "items"} =>
        \A p, q \in DOMAIN profiles :
            (/\ NeedsNewContainer(p)
             /\ NeedsNewContainer(q)
             /\ ExpectedDisplayName(p) # ExpectedDisplayName(q)
             /\ FirstSpaceOf(p) < FirstSpaceOf(q))
            => profiles[p].ContainerID < profiles[q].ContainerID

\* C20: Decompress returns an error and no payload whenever its input is
\* shorter than the magic plus the length field, or does not start with the
\* magic; it does so for inputs of every length from 0 on.
C20_DecompressRejects ==
    cpc = "decoded" =>
        LET raw == compressed.out
        IN (\/ Len(raw) < 12
            \/ \E k \in 1..8 : raw[k] # headerMagic[k])
           => (decompressed.err /\ decompressed.out = <<>>)

C20_Witness ==
    /\ cpc = "decoded"
    /\ Len(compressed.out) >= 12
    /\ compressed.out[8] # 0
    /\ decompressed.err

\* ---- C17 ----
\* the urls of the call under way that are the empty string
EmptyURLs == {i \in 1..Len(urls) : urls[i] = ""}

\* C17: when PreCacheFaviconsWithProgress has returned, every worker has left
\* its loop, every input url was received by exactly one worker, and
\* Cached + Fetched + Failed + the number of empty urls = Total = the number
\* of input urls
C17_BarrierAndCounts ==
    ppc = "returned" =>
        /\ \A w \in DOMAIN wpc : wpc[w] = "done"
        /\ \A i \in 1..Len(urls) : taken[i] = 1
        /\ result.Total = Len(urls)
        /\ result.Cached + result.Fetched + result.Failed + Cardinality(EmptyURLs)
              = result.Total

\* two workers have shared two urls, one of them empty, the other fetched
C17_Witness ==
    /\ ppc = "returned"
    /\ workers = 2
    /\ Len(urls) = 2
    /\ Cardinality(EmptyURLs) = 1
    /\ result.Fetched = 1
    /\ \A w \in DOMAIN wpc : wpc[w] = "done"

\* ---- C18 ----
\* C18: when the prefetch has returned, the cache holds an entry for every
\* input url that is not empty, and FetchAsDataURL sends no request for any
\* of them, whatever the server would answer
C18_EveryURLRecorded ==
    ppc = "returned" =>
        \A i \in 1..Len(urls) :
            urls[i] # "" =>
                /\ readFromCache(faviconCache, urls[i]) # ""
                /\ \A response \in network :
                      FetchAsDataURL(faviconCache, urls[i], response).requested = {}

\* ---- C19 ----
\* the host of a page url is one whose cache file held the failure marker
\* when the call under way began
MarkedAtStart(pageURL) ==
    /\ ~ParseURL(pageURL).err
    /\ ParseURL(pageURL).Host # ""
    /\ CachePath(ParseURL(pageURL).Host) \in markedAtStart

\* C19: a host whose failure marker was on disk when a prefetch began is sent
\* no request by that prefetch, which counts its urls as cached; a
\* FetchAsDataURL call that finds the marker sends no request and returns the
\* empty string
C19_MarkerStopsRequests ==
    /\ \A h \in Hosts : CachePath(h) \in markedAtStart => h \notin requests
    /\ ppc = "returned" =>
          \A i \in 1..Len(urls) : MarkedAtStart(urls[i]) => tally[i] = "cached"
    /\ lastFetch.marked => (lastFetch.result = "" /\ lastFetch.requested = {})

\* a prefetch counted a url of a marked host as cached, and a later
\* FetchAsDataURL call found the marker
C19_Witness ==
    /\ ppc = "returned"
    /\ lastFetch.marked
    /\ \E i \in 1..Len(urls) : MarkedAtStart(urls[i]) /\ tally[i] = "cached"

\* ---- C11 ----
\* an identity that is public and has no id, or an id that is not positive
PublicWithoutID(container) ==
    container.Public /\ ~(container.hasID /\ container.UserContextID > 0)

\* the identities of a list that are not public or have a positive id, in order
KeptIdentities(ids) ==
    LET Kept(container) == ~PublicWithoutID(container) IN SelectSeq(ids, Kept)

\* C11: the step of Import that writes containers.json leaves a file without
\* any public identity whose id is absent, zero or negative; the file holds the
\* other identities of the registry in memory, in their order
C11_PersistedRegistry ==
    [][(pc = "containers" /\ pc' = "backup") =>
          /\ containersFile'.exists
          /\ \A k \in 1..Len(containersFile'.content.Identities) :
                ~PublicWithoutID(containersFile'.content.Identities[k])
          /\ containersFile'.content.Identities =
                KeptIdentities(containersData.Identities)]_vars

\* containers.json has just been written; the registry on disk before the run
\* held a public identity without id, and the new file holds an internal
\* identity and a public one
C11_Witness ==
    /\ pc = "backup"
    /\ diskAtStart[2].exists
    /\ \E k \in 1..Len(diskAtStart[2].content.Identities) :
          PublicWithoutID(diskAtStart[2].content.Identities[k])
    /\ \E k \in 1..Len(containersFile.content.Identities) :
          ~containersFile.content.Identities[k].Public
    /\ \E k \in 1..Len(containersFile.content.Identities) :
          containersFile.content.Identities[k].Public

\* ---- C12 ----
\* C12: a run that ends because the session file could not be written leaves
\* containers.json as it was before the run
C12_AtomicPersistence ==
    (pc = "idle" /\ outcome = "failed to write session") =>
        containersFile = diskAtStart[2]

\* ---- C13 ----
\* C13: a run that finds a session file that does not decode ends at once with
\* the error; the session file, containers.json, the backups and the favicon
\* cache are as they were and the run never gets to the prefetch
C13_UndecodableSessionAborts ==
    (runs > 0 /\ diskAtStart[1].exists /\ Decompress(diskAtStart[1].bytes).err) =>
        /\ outcome = "failed to decompress session"
        /\ pc = "idle"
        /\ Disk = diskAtStart

\* a run has ended on a session file of full length and right magic whose
\* block is cut short
C13_Witness ==
    /\ runs > 0
    /\ outcome = "failed to decompress session"
    /\ Len(sessionFile.bytes) >= headerSize + sizeBytes
    /\ \A k \in 1..headerSize : sessionFile.bytes[k] = headerMagic[k]

\* ---- C14 ----
\* C14: a run that is no dry run, found a session file and ended well has left
\* a backup that holds the file as it was
C14_BackupBeforeOverwrite ==
    (pc = "idle" /\ runs > 0 /\ ~dryRun /\ outcome = "ok" /\ diskAtStart[1].exists) =>
        (backupDone /\ diskAtStart[1] \in backups)

\* ---- C15 ----
\* C15: in dry-run mode the session file, containers.json and the backups
\* are at every moment what they were when the run began
C15_DryRunWritesNoProfileFile ==
    dryRun =>
        /\ sessionFile = diskAtStart[1]
        /\ containersFile = diskAtStart[2]
        /\ backups = diskAtStart[3]

\* a dry run over a profile with a session file has ended well and has built
\* tabs in memory
C15_Witness ==
    /\ dryRun
    /\ pc = "idle"
    /\ outcome = "ok"
    /\ diskAtStart[1].exists
    /\ emitted.tabs # <<>>

\* ---- C16 ----
\* C16: in dry-run mode the favicon cache is at every moment what it was when
\* the run began
C16_DryRunKeepsFaviconCache ==
    dryRun => faviconCache = diskAtStart[4]

\* ---- C21 ----
\* C21: when Decompress succeeds, the payload it returns is as long as the
\* size field at offset 8 says
C21_LengthMatchesSizeField ==
    (cpc = "decoded" /\ ~decompressed.err) =>
        Len(decompressed.out)
          = Uint32(SubSeq(compressed.out, headerSize + 1, headerSize + sizeBytes))

\* ---- C22 ----
\* the identities the current run has appended to the registry, in order
CreatedIdentities ==
    SubSeq(containersData.Identities, Len(PreRegistry.Identities) + 1,
           Len(containersData.Identities))

\* the ids present in the registry on disk
PreIDs ==
    {PreRegistry.Identities[k].UserContextID :
        k \in {j \in 1..Len(PreRegistry.Identities) : PreRegistry.Identities[j].hasID}}

\* the largest of the positive ids of the registry on disk and its last
\* allocated id, 0 without any
PreMaxID ==
    LET cands == {id \in PreIDs : id > 0}
                 \cup (IF PreRegistry.hasLast THEN {PreRegistry.LastUserContextID} ELSE {})
                 \cup {0}
    IN CHOOSE m \in cands : \A id \in cands : id <= m

\* C22: from the allocation of the containers to the writing of the registry,
\* the k-th identity the run has created has the id PreMaxID + k, which is no
\* id of the registry on disk, and once one is created the last allocated id
\* of the registry is the id of the newest
C22_ConsecutiveFreshIDs ==
    pc \in {"alloc", "spaces", "items", "containers"} =>
        /\ \A k \in 1..Len(CreatedIdentities) :
              /\ CreatedIdentities[k].hasID
              /\ CreatedIdentities[k].UserContextID = PreMaxID + k
              /\ CreatedIdentities[k].UserContextID \notin PreIDs
        /\ Len(CreatedIdentities) > 0 =>
              /\ containersData.hasLast
              /\ containersData.LastUserContextID = PreMaxID + Len(CreatedIdentities)

\* two containers were created on top of a registry whose largest id is
\* above its last allocated id
C22_Witness ==
    /\ pc = "containers"
    /\ Len(CreatedIdentities) >= 2
    /\ \E id \in PreIDs : ~PreRegistry.hasLast /\ id > 0

\* ---- C23 ----
\* the profile's container id is the id of an identity the run created
GotNewContainer(profileName) ==
    \E k \in 1..Len(CreatedIdentities) :
        CreatedIdentities[k].UserContextID = profiles[profileName].ContainerID

\* C23: once the containers are allocated, a profile that got no new
\* container has the id of an identity of the registry on disk that is
\* public, has the profile's display name and has a positive id
C23_ReuseOnlyPublic ==
    pc = "spaces" =>
        \A p \in DOMAIN profiles :
            ~GotNewContainer(p) =>
                \E k \in 1..Len(PreRegistry.Identities) :
                    LET c == PreRegistry.Identities[k]
                    IN /\ c.Public
                       /\ c.Name = ExpectedDisplayName(p)
                       /\ c.hasID
                       /\ c.UserContextID > 0
                       /\ c.UserContextID = profiles[p].ContainerID

\* ---- C24 ----
\* C24: once the containers are allocated, the k-th identity the run created,
\* counted from 0, has the palette color at index k modulo the palette size
C24_ColorByCreationOrder ==
    pc = "spaces" =>
        \A k \in 1..Len(CreatedIdentities) :
            CreatedIdentities[k].Color
              = containerColors[((k - 1) % Len(containerColors)) + 1]

\* ---- C25 ----
\* the workspace the space in turn merges into: the first of its name, 0 if none
MergeTarget ==
    IF pc = "spaces" /\ spaceIdx <= Len(arcSpaces)
    THEN FirstIdx(WorkspacesNamed(zenSession, SpaceName(arcSpaces[spaceIdx])))
    ELSE 0

\* the tabs that are not pinned tabs of workspace ws, in order
TabsOutside(tabs, ws) ==
    LET Stays(t) == ~(t.Pinned /\ t.ZenWorkspace = ws) IN SelectSeq(tabs, Stays)

\* the folders that workspace ws does not own, in order
FoldersOutside(folders, ws) ==
    LET Stays(f) == f.WorkspaceID # ws IN SelectSeq(folders, Stays)

\* C25: the step that merges a space into an existing workspace W removes the
\* pinned tabs of W and the folders of W and nothing else: the other tabs and
\* folders stay in their order, the groups and the other workspaces stay as
\* they are, and W keeps its id, name, position and theme
C25_MergeFrame ==
    [][(MergeTarget # 0 /\ spaceIdx' = spaceIdx + 1) =>
          LET W == zenSession.Spaces[MergeTarget].UUID
          IN /\ zenSession'.Tabs = TabsOutside(zenSession.Tabs, W)
             /\ zenSession'.Folders = FoldersOutside(zenSession.Folders, W)
             /\ zenSession'.Groups = zenSession.Groups
             /\ Len(zenSession'.Spaces) = Len(zenSession.Spaces)
             /\ \A j \in 1..Len(zenSession.Spaces) :
                   IF j = MergeTarget
                   THEN /\ zenSession'.Spaces[j].UUID = zenSession.Spaces[j].UUID
                        /\ zenSession'.Spaces[j].Name = zenSession.Spaces[j].Name
                        /\ zenSession'.Spaces[j].Position = zenSession.Spaces[j].Position
                        /\ zenSession'.Spaces[j].Theme = zenSession.Spaces[j].Theme
                   ELSE zenSession'.Spaces[j] = zenSession.Spaces[j]]_vars

\* the first space has just merged into a workspace of the user's session:
\* pinned tabs and a folder are gone, an unpinned tab of that workspace and a
\* folder of another workspace are still there
C25_Witness ==
    /\ pc = "spaces"
    /\ spaceIdx = 2
    /\ runs = 1
    /\ sessionFile.exists
    /\ Len(zenSession.Tabs) < Len(sessionFile.content.Tabs)
    /\ Len(zenSession.Folders) < Len(sessionFile.content.Folders)
    /\ Len(zenSession.Spaces) = Len(sessionFile.content.Spaces)
    /\ \E t \in Range(zenSession.Tabs) :
          ~t.Pinned /\ t.ZenWorkspace = spaceUUIDMap[arcSpaces[1].ID]
    /\ zenSession.Folders # <<>>

\* ---- C26 ----
\* the entries of a space's root list that are strings and name an item, in order
ResolvedRoots(space) ==
    LET IsItem(ref) == ref.kind = "string" /\ \E it \in Range(arcItems) : it.ID = ref.v
        refs == SelectSeq(space.ContainerIDs, IsItem)
    IN [k \in 1..Len(refs) |-> refs[k].v]

RECURSIVE PreOrder(_, _)
\* the depth-first pre-order walk of a list of item ids under the item
\* parentItem ("" at the root): a container marker gives way to its children,
\* which keep parentItem; other items are listed with parentItem, a folder
\* followed by the walk of its children under itself
PreOrder(ids, parentItem) ==
    IF ids = <<>> THEN <<>>
    ELSE LET item == ItemByID(Head(ids))
             kids == ResolvedChildren(arcItems, item)
         IN (IF item.isContainer THEN PreOrder(kids, parentItem)
             ELSE <<[item |-> item.ID, parent |-> parentItem]>>
                  \o (IF Len(item.ChildrenIds) > 0 THEN PreOrder(kids, item.ID)
                      ELSE <<>>))
            \o PreOrder(Tail(ids), parentItem)

\* what the run appended for space sp, in order: each item with the item of
\* the folder it was put under ("" at the root)
EmittedFor(sp) ==
    LET Mine(e) == e.space = sp
        mine == SelectSeq(emitted.items, Mine)
    IN [k \in 1..Len(mine) |->
           [item |-> mine[k].item,
            parent |-> IF mine[k].parent = "" THEN ""
                       ELSE ItemOfFolder(mine[k].parent)]]

\* C26: when the tree walk of a run is over, the folders and content tabs
\* appended for each space are the depth-first pre-order walk of its resolved
\* root list in source order, container markers replaced by their children,
\* each item under the folder of its nearest enclosing item that is no marker
C26_PreOrderEmission ==
    (runs > 0 /\ pc \notin {"alloc", "spaces", "items"} /\ outcome \in {"ok", "running"}) =>
        \A sp \in 1..Len(arcSpaces) :
            EmittedFor(sp) = PreOrder(ResolvedRoots(arcSpaces[sp]), "")

\* a run is over in which an item that lies in a container marker was put
\* under a folder, and a space got two items or more
C26_Witness ==
    /\ runs > 0
    /\ pc = "idle"
    /\ \E e \in Range(emitted.items) :
          /\ e.parent # ""
          /\ \E c \in Range(arcItems) :
                c.isContainer /\ e.item \in Range(c.ChildrenIds)
    /\ \E sp \in 1..Len(arcSpaces) : Len(EmittedFor(sp)) >= 2

\* ---- C27 ----
\* the positions of the items a set of items names as children, resolved
ChildrenOf(set) ==
    {ItemIdx(arcItems, id) : id \in UNION {Range(arcItems[i].ChildrenIds) : i \in set}}
        \ {0}

RECURSIVE Closure(_, _)
\* the items reached from a set of items in at most n steps along child ids
Closure(set, n) ==
    IF n = 0 THEN set ELSE Closure(set \cup ChildrenOf(set), n - 1)

\* the items reached from item i in one step or more
ReachedFrom(i) == Closure(ChildrenOf({i}), Len(arcItems))

\* some item is reached from itself through child ids
Cyclic == \E i \in 1..Len(arcItems) : i \in ReachedFrom(i)

\* the items the tree walk of the spaces reaches: the roots and all below
ReachedFromRoots ==
    LET roots == UNION {Range(getRootItemsForSpace(arcSpaces[sp], arcItems)) :
                            sp \in 1..Len(arcSpaces)}
    IN Closure({ItemIdx(arcItems, id) : id \in roots}, Len(arcItems))

\* the url collection never ends with the stack at its limit
C27_CollectionEnds == (~Cyclic /\ pc = "collect") ~> (pc = "items")

\* the tree walk ends and the import returns
C27_WalkEnds == (~Cyclic /\ pc = "items") ~> (pc = "idle" /\ outcome = "ok")

\* at its end the collection has been called on every item and has the urls
\* of the recursive definition
C27_CollectionVisitsAll ==
    (~Cyclic /\ pc = "collect" /\ callStack = <<>>) =>
        /\ visited = 1..Len(arcItems)
        /\ collected = collectAllURLs(arcItems)

\* at its end the tree walk has appended each item reached from the roots
\* that is no container marker
C27_WalkVisitsAll ==
    (~Cyclic /\ runs > 0 /\ pc = "idle") =>
        {e.item : e \in Range(emitted.items)}
            = {arcItems[i].ID : i \in {j \in ReachedFromRoots : ~arcItems[j].isContainer}}

\* with a cycle a run never gets past the collection
C27_CycleNeverCompletes ==
    (Cyclic /\ runs > 0) =>
        /\ pc \in {"alloc", "spaces", "collect", "crashed"}
        /\ outcome = "running"
        /\ emitted = NoEmitted

\* C27: when no item is reached from itself through child ids, the url
\* collection and the tree walk end, the first having been called on every
\* item, the second having appended every item reached from the roots that is
\* no marker; when some item is reached from itself, an import that was
\* started never returns
C27_TerminatesIffAcyclic ==
    /\ C27_CollectionEnds
    /\ C27_WalkEnds
    /\ [](C27_CollectionVisitsAll /\ C27_WalkVisitsAll /\ C27_CycleNeverCompletes)

\* an import over a catalog with a cycle of two items or more has filled the
\* stack with calls of collect
C27_Witness ==
    /\ pc = "crashed"
    /\ Len(callStack) = MaxDepth
    /\ \E i \in 1..Len(arcItems) :
          i \in ReachedFrom(i) /\ ItemID(i) \notin Range(arcItems[i].ChildrenIds)

\* ---- C28 ----
\* every Group of a session has a Folder with its id
GroupsPaired(session) ==
    \A g \in Range(session.Groups) : \E f \in Range(session.Folders) : f.ID = g.ID

\* C28: the directory held no session at first; after every import that
\* returned without error each Group of the session on disk has a Folder with
\* the same id
C28_GroupsHaveFolders ==
    (pc = "idle" /\ outcome = "ok" /\ sessionFile.exists) =>
        GroupsPaired(readZenSession(sessionFile).session)

\* ---- C29 ----
\* C29: when a prefetch has returned, the cache entry of every url whose
\* fetch a worker counted as fetched is a data URL, not the failure marker
C29_DataURLSurvives ==
    ppc = "returned" =>
        \A i \in 1..Len(urls) :
            tally[i] = "fetched" =>
                readFromCache(faviconCache, urls[i]) \notin {"", failedMarker}

\* ---- C30 ----
\* the folders of a run have pairwise distinct ids, and the Groups appended
\* with them are the last of the session and bear the same ids
C30_DistinctIDs ==
    LET n == Len(emitted.folders)
        g == Len(zenSession.Groups)
    IN pc \in {"items", "containers", "backup", "session"} =>
          /\ \A i, j \in 1..n :
                emitted.folders[i].id = emitted.folders[j].id => i = j
          /\ g >= n
          /\ \A i \in 1..n : zenSession.Groups[g - n + i].ID = emitted.folders[i].id

\* once a run has appended a folder, no step of it shortens the folder list
C30_LengthGrows ==
    (emitted.folders # <<>> /\ runs' = runs) =>
        Len(zenSession'.Folders) >= Len(zenSession.Folders)

\* C30: within one run the ids of the folders appended are pairwise distinct,
\* and so are the ids of the Groups appended with them; after the first
\* folder of a run the folder list never gets shorter in that run
C30_FolderIDsDistinct == [](C30_DistinctIDs) /\ [][C30_LengthGrows]_vars

\* a second run that purged folders of a matched workspace has appended two
\* folders or more
C30_Witness ==
    /\ pc = "containers"
    /\ runs = 2
    /\ Len(emitted.folders) >= 2
    /\ Len(zenSession.Folders) < Len(diskAtStart[1].content.Folders) + Len(emitted.folders)

============================================================================
